---------------------------- MODULE Spec2Model ----------------------------
(***************************************************************************)
(* A model of the evoware package: plate geometry (plates.PlateFormat),    *)
(* the low-level worklist writer (worklist.Worklist) and the sample-level  *)
(* transfer engine (sampleworklist.SampleWorklist).                        *)
(*                                                                         *)
(* Python values are modelled as follows.                                  *)
(*   - a str that the code parses or builds character by character (well   *)
(*     coordinates) is a sequence of one-character strings;                *)
(*   - a str that the code only copies (rack labels, barcodes, rack types, *)
(*     sample IDs) is a TLA+ string;                                       *)
(*   - a value whose type the code inspects is a record [t, v] with the    *)
(*     type name in t; a float is held as twice its value, so that x.0     *)
(*     and x.5 are both representable;                                     *)
(*   - a raised exception is the name of its class.                        *)
(* The interpreter is Python 3 (samples.py uses the argument-less super).  *)
(***************************************************************************)
EXTENDS Integers, Sequences, FiniteSets, TLC

VARIABLES
    \* --- plates.PlateFormat: one format and a chain of conversions
    fmt,          \* the PlateFormat instance: [n, nx, ny]
    vals,         \* vals[1] is the input, vals[i+1] the result of ops[i]
    ops,          \* the conversions applied so far
    \* --- worklist.Worklist: one instance and the file it writes
    _f,           \* Worklist._f: "None" or "open"
    file,         \* the lines of the file named by Worklist.fname
    fnameOK,      \* whether open(fname, mode='w') succeeds
    inWith,       \* inside a `with worklist:` block
    exc,          \* exception raised by the last call, or "none"
    op,           \* the last method called
    args,         \* the arguments of the last call
    ncalls,       \* number of calls made so far
    written,      \* every line handed to f.write so far, in order
    \* --- sampleworklist.SampleWorklist.distributeSamples
    tsamples,     \* the list of target Reactions
    reagentkeys,  \* the reagentkeys argument
    dkeys,        \* the local variable keys of the last distributeSamples
    xfers,        \* <<key index, target index>> of every transferSample call
    fcontent,     \* what readlines() returned after each run
    \* --- constructors and methods of the value objects, called one by one
    objs,         \* the objects built so far, or the exceptions raised
    calls,        \* the calls made so far: [f, a] with the arguments in a
    result,       \* what the last method call returned or raised
    \* --- samples.SampleIndex: one instance
    _map,         \* SampleIndex._map: the items [k, v] in insertion order
    relaxed_id,   \* SampleIndex.relaxed
    \* --- plates.PlateIndex: the index that the converters are given
    plateindex,   \* the items [k, v] of the PlateIndex in insertion order
    clones        \* history: the identities of the plates that getcreate
                  \* built from a default plate with the default rackType

pfvars == <<fmt, vals, ops>>
wlvars == <<_f, file, fnameOK, inWith, exc, op, args, ncalls, written>>
wlvars_but_op == <<_f, file, fnameOK, inWith, exc, args, ncalls, written>>
dsvars == <<tsamples, reagentkeys, dkeys, xfers, fcontent>>
apivars == <<objs, calls, result>>
idxvars == <<_map, relaxed_id, plateindex, clones>>
vars == <<fmt, vals, ops, _f, file, fnameOK, inWith, exc, op, args, ncalls,
          written, tsamples, reagentkeys, dkeys, xfers, fcontent, objs, calls,
          result, _map, relaxed_id, plateindex, clones>>

\* no object has been built and no method called
APIIdle ==
    /\ objs = << >> /\ calls = << >> /\ result = << >>
    /\ _map = << >> /\ relaxed_id = TRUE /\ plateindex = << >>
    /\ clones = {}

-----------------------------------------------------------------------------
(* Bounds of the model *)

\* longest input string handed to pos2int
MaxStrLen == 3
\* integers handed to pos2int / int2human range over -MaxOut .. n + MaxOut
MaxOut == 9

-----------------------------------------------------------------------------
(* Python helpers *)

\* string.ascii_uppercase
ascii_uppercase ==
    <<"A","B","C","D","E","F","G","H","I","J","K","L","M",
      "N","O","P","Q","R","S","T","U","V","W","X","Y","Z">>

ascii_lowercase ==
    <<"a","b","c","d","e","f","g","h","i","j","k","l","m",
      "n","o","p","q","r","s","t","u","v","w","x","y","z">>

digits == <<"0","1","2","3","4","5","6","7","8","9">>

Range(s) == {s[i] : i \in DOMAIN s}

\* s.find(c) for a one-character c: 0-based index of the first hit, or -1
find(s, c) ==
    IF c \in Range(s)
    THEN (CHOOSE i \in DOMAIN s : s[i] = c /\ \A j \in 1..(i-1) : s[j] # c) - 1
    ELSE -1

IsLetter(c) == c \in Range(ascii_uppercase) \cup Range(ascii_lowercase)
IsDigit(c) == c \in Range(digits)

\* str.upper() of one character
upper(c) ==
    IF c \in Range(ascii_lowercase)
    THEN ascii_uppercase[find(ascii_lowercase, c) + 1]
    ELSE c

\* int(a / b) for b > 0: true division, then truncation toward zero
TruncDiv(a, b) == IF a >= 0 THEN a \div b ELSE -((-a) \div b)

\* str(k) of an integer as a sequence of characters
RECURSIVE NatStr(_)
NatStr(k) ==
    IF k < 10 THEN <<digits[k + 1]>>
    ELSE NatStr(k \div 10) \o <<digits[(k % 10) + 1]>>

IntStr(k) == IF k < 0 THEN <<"-">> \o NatStr(-k) ELSE NatStr(k)

\* int(s) of a non-empty sequence of digit characters
RECURSIVE ParseNat(_)
ParseNat(s) ==
    IF Len(s) = 0 THEN 0
    ELSE 10 * ParseNat(SubSeq(s, 1, Len(s) - 1)) + find(digits, s[Len(s)])

\* the longest run of digits of s that starts at index i (empty if none)
RECURSIVE DigitRun(_, _)
DigitRun(s, i) ==
    IF i <= Len(s) /\ IsDigit(s[i]) THEN <<s[i]>> \o DigitRun(s, i + 1)
    ELSE << >>

\* str.strip() of a string whose only whitespace is the blank
RECURSIVE lstrip(_)
lstrip(s) == IF Len(s) > 0 /\ s[1] = " " THEN lstrip(Tail(s)) ELSE s

RECURSIVE rstrip(_)
rstrip(s) ==
    IF Len(s) > 0 /\ s[Len(s)] = " "
    THEN rstrip(SubSeq(s, 1, Len(s) - 1)) ELSE s

strip(s) == rstrip(lstrip(s))

\* s.split(sep) for a one-character sep: the list of the pieces
RECURSIVE split(_, _)
split(s, sep) ==
    IF sep \notin Range(s) THEN <<s>>
    ELSE LET i == find(s, sep) + 1
         IN  <<SubSeq(s, 1, i - 1)>> \o split(SubSeq(s, i + 1, Len(s)), sep)

\* tagged Python values
IntV(k) == [t |-> "int", v |-> k]
FloatV(k2) == [t |-> "float", v |-> k2]
StrV(s) == [t |-> "str", v |-> s]
ExcV(e) == [t |-> "exc", v |-> e]
TupleV(s) == [t |-> "tuple", v |-> s]

\* util.intfloat2int: a whole float becomes the int (a float is held as
\* twice its value)
intfloat2int(x) ==
    IF x.t = "float" /\ x.v % 2 = 0 THEN IntV(x.v \div 2) ELSE x

\* str(x) of an int, a str, or a float with fractional part .5
str(x) ==
    IF x.t = "str" THEN x.v
    ELSE IF x.t = "int" THEN IntStr(x.v)
    ELSE IF x.v % 2 = 0 THEN IntStr(x.v \div 2) \o <<".", "0">>
    ELSE (IF x.v < 0 THEN <<"-">> ELSE << >>)
         \o NatStr((IF x.v < 0 THEN -x.v ELSE x.v) \div 2) \o <<".", "5">>

-----------------------------------------------------------------------------
(* plates.PlateFormat *)

\* a defective rounding that cuts the square root off: int(sqrt(3./2 * n))
FloorSqrt32(n) == CHOOSE k \in 0..(2 * n + 1) : k * k * 2 <= 3 * n /\ 3 * n < (k + 1) * (k + 1) * 2

\* round(sqrt(3./2 * n)) for n >= 0: the k >= 0 with
\* k - 1/2 <= sqrt(3n/2) < k + 1/2
RoundSqrt32(n) ==
    CHOOSE k \in 0..(2 * n + 1) :
        /\ (k = 0 \/ (2*k - 1) * (2*k - 1) <= 6 * n)
        /\ 6 * n < (2*k + 1) * (2*k + 1)

\* round(1.0 * a / b) for a >= 0, b > 0: ties go to the even neighbour
RoundDiv(a, b) ==
    LET q == a \div b
        r == a % b
    IN  IF 2 * r < b THEN q
        ELSE IF 2 * r > b THEN q + 1
        ELSE IF q % 2 = 0 THEN q ELSE q + 1

\* the argument None (as an argument, None and 0 take the same branch of
\* `nx or ...`)
None0 == 0

\* a defective constructor that does not compare nx * ny with n
init_unchecked(n, nx, ny) ==
    IF nx = None0 /\ n < 0 THEN ExcV("ValueError")
    ELSE LET self_nx == IF nx # None0 THEN nx ELSE RoundSqrt32(n)
         IN  IF ny = None0 /\ self_nx = 0 THEN ExcV("ZeroDivisionError")
             ELSE [t |-> "PlateFormat",
                   v |-> [n |-> n, nx |-> self_nx,
                          ny |-> IF ny # None0 THEN ny
                                 ELSE RoundDiv(n, self_nx)]]

\* PlateFormat(n, nx, ny) for integers n, nx >= 0, ny >= 0: the instance,
\* or the exception raised.  sqrt of a negative number gives no integer
\* (ValueError); 1.0*n/self.nx with nx = 0 is a ZeroDivisionError
PlateFormat_init(n, nx, ny) ==
    IF nx = None0 /\ n < 0 THEN ExcV("ValueError")
    ELSE LET self_nx == IF nx # None0 THEN nx ELSE RoundSqrt32(n)
         IN  IF ny = None0 /\ self_nx = 0 THEN ExcV("ZeroDivisionError")
             ELSE LET self_ny == IF ny # None0 THEN ny
                                 ELSE RoundDiv(n, self_nx)
                  IN  IF self_nx * self_ny # n THEN ExcV("PlateError")
                      ELSE [t |-> "PlateFormat",
                            v |-> [n |-> n, nx |-> self_nx, ny |-> self_ny]]

\* PlateFormat(n) without nx, ny: the instance, or the exception raised
PlateFormat(n) == PlateFormat_init(n, None0, None0)

\* a defective __eq__ that looks at the number of wells only
eq_wells_only(self, o) == o.t = "PlateFormat" /\ self.n = o.v.n

\* PlateFormat.__eq__(self, o) for self = [n, nx, ny] and any value o
PlateFormat__eq__(self, o) ==
    /\ o.t = "PlateFormat"
    /\ self.n = o.v.n /\ self.nx = o.v.nx /\ self.ny = o.v.ny

\* PlateFormat.__hash__: hash((self.n, self.nx)); the hash of a tuple is
\* held as the tuple, which it is a function of
PlateFormat__hash__(self) == <<self.n, self.nx>>

\* PlateFormat.ex_position.match(pos): '([A-Za-z]{0,1})([0-9]+)' anchored at
\* the start; a letter that no digit follows makes the match fail, as the
\* empty alternative then meets that letter where a digit is needed
ex_position_match(pos) ==
    IF Len(pos) >= 2 /\ IsLetter(pos[1]) /\ IsDigit(pos[2])
    THEN [matched |-> TRUE, letter |-> pos[1], number |-> DigitRun(pos, 2)]
    ELSE IF Len(pos) >= 1 /\ IsDigit(pos[1])
    THEN [matched |-> TRUE, letter |-> "", number |-> DigitRun(pos, 1)]
    ELSE [matched |-> FALSE, letter |-> "", number |-> << >>]

\* PlateFormat.str2tuple: (letter, number); isNone marks number = None
str2tuple(pos) ==
    LET match == ex_position_match(pos)
    IN  IF ~match.matched
        THEN [letter |-> "", isNone |-> TRUE, number |-> 0]
        ELSE [letter |-> upper(match.letter), isNone |-> FALSE,
              number |-> ParseNat(match.number)]

\* the tail of pos2int, once letter and number are known
pos2int_check(f, letter, isNone, number) ==
    LET row == find(ascii_uppercase, letter) + 1
        col == number
        r == IF letter # "" THEN (col - 1) * f.ny + row ELSE number
    IN  \* `r > self.n` with r = None raises TypeError in Python 3
        IF letter = "" /\ isNone THEN ExcV("TypeError")
        ELSE IF r > f.n THEN ExcV("PlateError")
        ELSE IF r = 0 THEN ExcV("PlateError")
        ELSE IntV(r)

\* PlateFormat.pos2int
pos2int(f, pos) ==
    IF pos.t = "int" THEN pos2int_check(f, "", FALSE, pos.v)
    ELSE IF pos.t = "float"
    THEN pos2int_check(f, "", FALSE, TruncDiv(pos.v, 2))
    ELSE IF pos.t # "str" THEN ExcV("AssertionError")
    ELSE LET tp == str2tuple(pos.v)
         IN  pos2int_check(f, tp.letter, tp.isNone, tp.number)

\* PlateFormat.int2human
int2human(f, pos) ==
    IF pos.t # "int" THEN ExcV("AssertionError")
    ELSE LET col == TruncDiv(pos.v - 1, f.ny)
             row == (pos.v - 1) % f.ny
         IN  IF col + 1 > f.nx \/ row > f.ny THEN ExcV("PlateError")
             \* string.ascii_uppercase[row]
             ELSE IF row >= Len(ascii_uppercase) THEN ExcV("IndexError")
             ELSE StrV(<<ascii_uppercase[row + 1]>> \o IntStr(col + 1))


-----------------------------------------------------------------------------
(* worklist.Worklist                                                       *)
(*                                                                         *)
(* A method is an operator from the state it finds to the state it leaves. *)
(* The state is [_f, file, exc, out, xfers]: the handle, the lines of the  *)
(* file, the exception that is propagating ("none" if none), the lines the *)
(* call has handed to f.write, and the transferSample calls it has made.   *)
(* A statement that follows a raised exception is not executed: every      *)
(* operator returns the state unchanged when exc is set.  Writes and       *)
(* close() themselves are taken to succeed; only open() can fail, for a    *)
(* file name that cannot be opened.  A line is the tuple of its            *)
(* ';'-separated fields; the fields printed with %i are integers.          *)

Raise(st, e) == [st EXCEPT !.exc = e]

\* Worklist._get_file, the getter of property f; open(mode='w') empties
\* the file
_get_file(st, ok) ==
    IF st.exc # "none" THEN st
    ELSE IF st._f = "None"
    THEN IF ok THEN [st EXCEPT !._f = "open", !.file = << >>]
         ELSE Raise(st, "IOError")
    ELSE st

\* self.f.write(r)
f_write(st, ok, r) ==
    LET g == _get_file(st, ok)
    IN  IF g.exc # "none" THEN g
        ELSE [g EXCEPT !.file = Append(@, r), !.out = Append(@, r)]

\* Worklist.close
close(st) ==
    IF st.exc # "none" THEN st
    ELSE IF st._f # "None" THEN [st EXCEPT !._f = "None"]
    ELSE st

\* a defective __exit__ that keeps the handle when the block was left by an
\* exception
exit_leaking(st, type) ==
    IF type # "none" THEN [st EXCEPT !.exc = type]
    ELSE [close([st EXCEPT !.exc = "none"]) EXCEPT !.exc = type]

\* Worklist.__exit__: close() inside try/except; the exception that left
\* the block, if any, keeps propagating (__exit__ returns None)
__exit__(st, type) ==
    [close([st EXCEPT !.exc = "none"]) EXCEPT !.exc = type]

\* str(tipMask or ''); tipMask None is 0 here
tipMaskStr(tipMask) == IF tipMask = 0 THEN "" ELSE ToString(tipMask)

\* the guard shared by aspirate and dispense
rackGiven(rackID, rackLabel, rackType) ==
    rackLabel # "" \/ (rackID # "" /\ rackType # "")

\* a defective aspirate that writes its line before it looks at the rack
aspirate_late_guard(st, ok, rackID, rackLabel, rackType, position, tubeID, volume, liquidClass, tipMask) ==
    IF st.exc # "none" THEN st
    ELSE LET w == f_write(st, ok, <<"A", rackLabel, rackID, rackType,
                                    position, tubeID, volume, liquidClass,
                                    tipMaskStr(tipMask)>>)
         IN  IF w.exc = "none" /\ ~rackGiven(rackID, rackLabel, rackType)
             THEN Raise(w, "WorklistException")
             ELSE w

\* Worklist.aspirate
aspirate(st, ok, rackID, rackLabel, rackType, position, tubeID, volume, liquidClass, tipMask) ==
    IF st.exc # "none" THEN st
    ELSE IF ~rackGiven(rackID, rackLabel, rackType)
    THEN Raise(st, "WorklistException")
    ELSE f_write(st, ok, <<"A", rackLabel, rackID, rackType, position, tubeID,
                           volume, liquidClass, tipMaskStr(tipMask)>>)

\* a defective dispense that washes whether asked to or not
dispense_always_wash(st, ok, rackID, rackLabel, rackType, position, tubeID, volume, liquidClass, tipMask, wash) ==
    IF st.exc # "none" THEN st
    ELSE IF ~rackGiven(rackID, rackLabel, rackType)
    THEN Raise(st, "WorklistException")
    ELSE f_write(f_write(st, ok, <<"D", rackLabel, rackID, rackType, position,
                                   tubeID, volume, liquidClass,
                                   tipMaskStr(tipMask)>>),
                 ok, <<"W">>)

\* Worklist.dispense
dispense(st, ok, rackID, rackLabel, rackType, position, tubeID, volume, liquidClass, tipMask, wash) ==
    IF st.exc # "none" THEN st
    ELSE IF ~rackGiven(rackID, rackLabel, rackType)
    THEN Raise(st, "WorklistException")
    ELSE LET d == f_write(st, ok, <<"D", rackLabel, rackID, rackType,
                                    position, tubeID, volume, liquidClass,
                                    tipMaskStr(tipMask)>>)
         IN  IF wash THEN f_write(d, ok, <<"W">>) ELSE d

\* Worklist.A
A(st, ok, rackID, position, volume, byLabel, rackType) ==
    IF ~byLabel
    THEN aspirate(st, ok, rackID, "", rackType, position, "", volume, "", 0)
    ELSE aspirate(st, ok, "", rackID, "", position, "", volume, "", 0)

\* Worklist.D
D(st, ok, rackID, position, volume, wash, byLabel, rackType) ==
    IF ~byLabel
    THEN dispense(st, ok, rackID, "", rackType, position, "", volume, "", 0,
                  wash)
    ELSE dispense(st, ok, "", rackID, "", position, "", volume, "", 0, wash)

\* Worklist.transfer
transfer(st, ok, srcID, srcPosition, dstID, dstPosition, volume, wash, byLabel, srcRackType, dstRackType) ==
    D(A(st, ok, srcID, srcPosition, volume, byLabel, srcRackType),
      ok, dstID, dstPosition, volume, wash, byLabel, dstRackType)

\* Worklist.transferColumn, rows i .. rows-1 of the column
RECURSIVE transferColumnRows(_, _, _, _, _, _, _, _, _, _, _, _, _)
transferColumnRows(st, ok, srcRack, dstRack, pos_src, pos_dst, volume, liquidClass, tipMask, wash, byLabel, i, rows) ==
    IF i >= rows \/ st.exc # "none" THEN st
    ELSE LET a == aspirate(st, ok, srcRack.rackID, srcRack.rackLabel,
                           srcRack.rackType, pos_src + i, "", volume,
                           liquidClass, tipMask)
             d == dispense(a, ok, dstRack.rackID, dstRack.rackLabel,
                           dstRack.rackType, pos_dst + i, "", volume,
                           liquidClass, tipMask, wash)
         IN  transferColumnRows(d, ok, srcRack, dstRack, pos_src, pos_dst,
                                volume, liquidClass, tipMask, wash, byLabel,
                                i + 1, rows)

\* Worklist.transferColumn
transferColumn(st, ok, srcID, srcCol, dstID, dstCol, volume, plateformat, liquidClass, tipMask, wash, byLabel, srcRackType, dstRackType) ==
    LET rows == plateformat.ny
        pos_src == (srcCol - 1) * rows + 1
        pos_dst == (dstCol - 1) * rows + 1
        srcRack == IF byLabel
                   THEN [rackLabel |-> srcID, rackID |-> "", rackType |-> ""]
                   ELSE [rackLabel |-> "", rackID |-> srcID,
                         rackType |-> srcRackType]
        dstRack == IF byLabel
                   THEN [rackLabel |-> dstID, rackID |-> "", rackType |-> ""]
                   ELSE [rackLabel |-> "", rackID |-> dstID,
                         rackType |-> dstRackType]
    IN  transferColumnRows(st, ok, srcRack, dstRack, pos_src, pos_dst, volume,
                           liquidClass, tipMask, wash, byLabel, 0, rows)

-----------------------------------------------------------------------------
(* plates.Plate, samples.Sample, samples.Reaction                          *)
(*                                                                         *)
(* A Plate is [id, rackLabel, barcode, format, _rackType]; id stands for   *)
(* the identity of the object.  A Sample is [fullid, plate, position]; a   *)
(* Reaction adds sourcevolumes, the dict of source Sample -> volume as the *)
(* sequence of its items in insertion order.                               *)

\* the default rackType of Plate.__init__
DefaultRackType == "%i Well Microplate"

\* Plate.rackType (getter): '%i' is replaced by the number of wells
Plate_rackType(plate) ==
    IF plate._rackType = DefaultRackType
    THEN ToString(plate.format.n) \o " Well Microplate"
    ELSE plate._rackType

\* Plate.byLabel: [exc, v]
Plate_byLabel(plate) ==
    IF plate.rackLabel # "" THEN [exc |-> "none", v |-> TRUE]
    ELSE IF plate.barcode # "" /\ Plate_rackType(plate) # ""
    THEN [exc |-> "none", v |-> FALSE]
    ELSE [exc |-> "PlateError", v |-> FALSE]

\* Plate.preferredID: [exc, v]
Plate_preferredID(plate) ==
    LET b == Plate_byLabel(plate)
    IN  IF b.exc # "none" THEN [exc |-> b.exc, v |-> ""]
        ELSE IF b.v THEN [exc |-> "none", v |-> plate.rackLabel]
        ELSE [exc |-> "none", v |-> plate.barcode]

\* Sample(id, plate=plate, pos=pos) for a position the plate has
Sample(fullid, plate, pos) ==
    [fullid |-> fullid, plate |-> plate,
     position |-> pos2int(plate.format, pos).v]

\* Reaction(id, plate=plate, pos=pos, sourcevolumes=sv)
Reaction(fullid, plate, pos, sv) ==
    [fullid |-> fullid, plate |-> plate,
     position |-> pos2int(plate.format, pos).v, sourcevolumes |-> sv]

\* Reaction.sourceIds
sourceIds(r) == [i \in DOMAIN r.sourcevolumes |-> r.sourcevolumes[i][1].fullid]

\* Reaction.sourceIndex().get(k, (None, None)): the dict comprehension
\* keeps the last item of each fullid; found = FALSE stands for (None, None)
sourceIndex_get(r, k) ==
    LET hits == {i \in DOMAIN r.sourcevolumes :
                    r.sourcevolumes[i][1].fullid = k}
    IN  IF hits = {} THEN [found |-> FALSE, i |-> 0]
        ELSE [found |-> TRUE,
              i |-> CHOOSE i \in hits : \A j \in hits : j <= i]

\* the (ID, sub-ID) pair made of the non-empty strings of strs
IdPair(strs) ==
    LET kept == SelectSeq(strs, LAMBDA x : x # << >>)
    IN  TupleV(<<StrV(IF Len(kept) > 0 THEN kept[1] ELSE << >>),
                 StrV(IF Len(kept) > 1 THEN kept[2] ELSE << >>)>>)

\* the list that normalize_sample_id works on
IdParts(ids) ==
    IF ids.t = "str" /\ "#" \in Range(ids.v)
    THEN LET pieces == split(ids.v, "#")
         IN  [i \in DOMAIN pieces |-> StrV(pieces[i])]
    ELSE IF ids.t \in {"tuple", "list"} THEN ids.v
    ELSE <<ids>>

normalize_keep_float(ids) ==
    LET parts == IdParts(ids)
    IN  IdPair([i \in DOMAIN parts |-> strip(str(parts[i]))])

\* samples.normalize_sample_id
normalize_sample_id(ids) ==
    LET parts == IdParts(ids)
    IN  IdPair([i \in DOMAIN parts |-> strip(str(intfloat2int(parts[i])))])

\* Sample._getfullid of a normalized (ID, sub-ID) pair
_getfullid(pair) ==
    IF pair.v[2].v # << >> THEN pair.v[1].v \o <<"#">> \o pair.v[2].v
    ELSE pair.v[1].v

\* Sample.__init__(id, subid, plate, pos) for a Plate instance plate: the
\* new Sample [fullid, plate, position], or the exception of pos2int
Sample__init__(id, subid, plate, pos) ==
    LET _subid == strip(str(intfloat2int(subid)))
        pair == IF _subid # << >>
                THEN normalize_sample_id(TupleV(<<id, subid>>))
                ELSE normalize_sample_id(id)
        _pos == pos2int(plate.format, pos)
    IN  IF _pos.t = "exc" THEN _pos
        ELSE [t |-> "Sample",
              v |-> [fullid |-> _getfullid(pair), plate |-> plate,
                     position |-> _pos.v]]

\* None, and a bool argument
NoneV == [t |-> "None", v |-> "None"]
BoolV(b) == [t |-> "bool", v |-> b]

\* a dict is the sequence of its items [k, v] in insertion order
dict_has(d, key) == \E i \in DOMAIN d : d[i].k = key

\* d[key]
dict_get(d, key) == d[CHOOSE i \in DOMAIN d : d[i].k = key].v

\* d[key] = value: a key that is there keeps its place
dict_set(d, key, value) ==
    IF dict_has(d, key)
    THEN [i \in DOMAIN d |->
            IF d[i].k = key THEN [k |-> key, v |-> value] ELSE d[i]]
    ELSE Append(d, [k |-> key, v |-> value])

\* SampleIndex.add: [exc, _map]
SampleIndex_add(m, sample) ==
    IF sample.t # "Sample" THEN [exc |-> "ValueError", _map |-> m]
    ELSE [exc |-> "none", _map |-> dict_set(m, sample.v.fullid, sample)]

get_latest_entry(m, self_relaxed, key0, default, relaxed) ==
    LET pair == normalize_sample_id(key0)
        _subid == pair.v[2].v
        key == IF _subid # << >> THEN pair.v[1].v \o <<"#">> \o _subid
               ELSE pair.v[1].v
        rel == IF relaxed.t = "None" THEN self_relaxed ELSE relaxed.v
        hits == {i \in DOMAIN m : split(m[i].k, "#")[1] = key}
    IN  IF rel /\ ~dict_has(m, key) /\ hits # {}
        THEN m[CHOOSE i \in hits : \A j \in hits : j <= i].v
        ELSE IF dict_has(m, key) THEN dict_get(m, key)
        ELSE IF default.t # "None" THEN default
        ELSE ExcV("KeyError")

\* SampleIndex.get(key0, default, relaxed) on an index with _map = m and
\* relaxed = self_relaxed: the return value or the exception
SampleIndex_get(m, self_relaxed, key0, default, relaxed) ==
    LET pair == normalize_sample_id(key0)
        _subid == pair.v[2].v
        key == IF _subid # << >> THEN pair.v[1].v \o <<"#">> \o _subid
               ELSE pair.v[1].v
        rel == IF relaxed.t = "None" THEN self_relaxed ELSE relaxed.v
        hits == {i \in DOMAIN m : split(m[i].k, "#")[1] = key}
    IN  IF rel /\ ~dict_has(m, key) /\ hits # {}
        THEN m[CHOOSE i \in hits : \A j \in hits : i <= j].v
        ELSE IF dict_has(m, key) THEN dict_get(m, key)
        ELSE IF default.t # "None" THEN default
        ELSE ExcV("KeyError")

\* isinstance(x, Sample): a Sample or an instance of a subclass
IsSample(x) == x.t \in {"Sample", "Reaction", "TargetSample"}

\* isinstance(x, numbers.Number)
IsNumber(x) == x.t \in {"int", "float", "bool"}

\* del d[key]: [exc, d]
dict_del(d, key) ==
    IF dict_has(d, key)
    THEN [exc |-> "none", d |-> SelectSeq(d, LAMBDA x : x.k # key)]
    ELSE [exc |-> "KeyError", d |-> d]

\* SampleIndex.__delitem__(key) on an index with _map = m and relaxed =
\* self_relaxed: [exc, _map].  The two `if` statements are followed by an
\* unconditional raise
SampleIndex__delitem__(m, self_relaxed, key) ==
    LET sample == SampleIndex_get(m, self_relaxed, key, NoneV, NoneV)
        byStr == IF key.t # "str" THEN [exc |-> "none", d |-> m]
                 ELSE IF sample.t = "exc" THEN [exc |-> sample.v, d |-> m]
                 ELSE dict_del(m, sample.v.fullid)
        byInstance == IF byStr.exc # "none" \/ ~IsSample(key) THEN byStr
                      ELSE dict_del(byStr.d, key.v.fullid)
    IN  [exc |-> IF byInstance.exc # "none" THEN byInstance.exc
                 ELSE "ValueError",
         _map |-> byInstance.d]

\* a dict argument: the sequence of its items [k, v]
DictV(items) == [t |-> "dict", v |-> items]

\* Reaction.updateFields(sourcevolumes) on a Reaction whose sourcevolumes
\* is old: [exc, sourcevolumes]
Reaction_updateFields(old, sourcevolumes) ==
    IF sourcevolumes.t # "dict"
    THEN [exc |-> "AssertionError", sourcevolumes |-> old]
    ELSE IF /\ Len(sourcevolumes.v) > 0
            /\ \/ ~IsSample(sourcevolumes.v[1].k)
               \/ ~IsNumber(sourcevolumes.v[1].v)
    THEN [exc |-> "AssertionError", sourcevolumes |-> old]
    ELSE [exc |-> "none", sourcevolumes |-> sourcevolumes]

-----------------------------------------------------------------------------
(* plates.PlateIndex and sampleconverters                                  *)
(*                                                                         *)
(* Here every Python str is the sequence of its characters, the keys of    *)
(* the rows and the labels of the plates included.  The objects live in a  *)
(* heap, the sequence of the instances built so far, and RefV(i) is the    *)
(* reference to the i-th of them, so that `the same object` can be told    *)
(* from `an equal object`.  An instance is [t, v, fields] with its class   *)
(* in t, [fullid, plate, position] in v and the custom fields in fields; a *)
(* TargetSample has sourcevolumes as well.  A converter is [cls,           *)
(* sampleClass, sourcefields, sampleindex, defaultvolumes].                *)

RefV(i) == [t |-> "ref", v |-> i]

\* an instance of plates.Plate, the class that samples work with, and an
\* instance of plate.Plate, the class that sampleconverters imports
PlateV(plate) == [t |-> "plates.Plate", v |-> plate]
OldPlateV(plate) == [t |-> "plate.Plate", v |-> plate]

\* the default rackType of Plate.__init__, as characters
rackTypeTemplate ==
    <<"%", "i", " ", "W", "e", "l", "l", " ",
      "M", "i", "c", "r", "o", "p", "l", "a", "t", "e">>

\* '%i' in s
HasPlaceholder(s) ==
    \E i \in 1..(Len(s) - 1) : s[i] = "%" /\ s[i + 1] = "i"

\* s % n for an int n, from character i on: [exc, v].  unused tells that n
\* has not been converted yet.  A '%' of s is followed by 'i', by '%', by a
\* letter that is no conversion, flag or length, or by nothing.
RECURSIVE PercentFormat(_, _, _, _, _)
PercentFormat(s, i, n, unused, out) ==
    IF i > Len(s)
    THEN IF unused THEN [exc |-> "TypeError", v |-> << >>]
         ELSE [exc |-> "none", v |-> out]
    ELSE IF s[i] # "%"
    THEN PercentFormat(s, i + 1, n, unused, Append(out, s[i]))
    ELSE IF i = Len(s) THEN [exc |-> "ValueError", v |-> << >>]
    ELSE IF s[i + 1] = "%"
    THEN PercentFormat(s, i + 2, n, unused, Append(out, "%"))
    ELSE IF ~unused THEN [exc |-> "TypeError", v |-> << >>]
    ELSE IF s[i + 1] # "i" THEN [exc |-> "ValueError", v |-> << >>]
    ELSE PercentFormat(s, i + 2, n, FALSE, out \o IntStr(n))

\* Plate.rackType (getter) of a plate with its strings as characters:
\* [exc, v]
get_rackType(plate) ==
    IF HasPlaceholder(plate._rackType)
    THEN PercentFormat(plate._rackType, 1, plate.format.n, TRUE, << >>)
    ELSE [exc |-> "none", v |-> plate._rackType]

\* Plate.byLabel: True, False or the exception raised
byLabel(plate) ==
    IF plate.rackLabel # << >> THEN BoolV(TRUE)
    ELSE IF plate.barcode = << >> THEN ExcV("PlateError")
    ELSE IF get_rackType(plate).exc # "none"
    THEN ExcV(get_rackType(plate).exc)
    ELSE IF get_rackType(plate).v # << >> THEN BoolV(FALSE)
    ELSE ExcV("PlateError")

\* Plate.preferredID: the str returned or the exception raised
preferredID(plate) ==
    IF byLabel(plate).t = "exc" THEN byLabel(plate)
    ELSE IF byLabel(plate).v THEN StrV(plate.rackLabel)
    ELSE StrV(plate.barcode)

\* Plate.__init__(rackLabel, barcode, format, rackType) for a str rackType;
\* id is the identity of the new object
Plate__init__(id, rackLabel, barcode, format, _rackType) ==
    IF rackLabel.t # "str" \/ barcode.t # "str" \/ format.t # "PlateFormat"
    THEN ExcV("AssertionError")
    ELSE PlateV([id |-> id, rackLabel |-> rackLabel.v, barcode |-> barcode.v,
                 format |-> format.v, _rackType |-> _rackType])

\* PlateIndex.DEFAULT_KEY
DEFAULT_KEY == <<"d", "e", "f", "a", "u", "l", "t">>

\* PlateIndex.defaultplate
PlateIndex_defaultplate(self) ==
    IF dict_has(self, DEFAULT_KEY) THEN dict_get(self, DEFAULT_KEY)
    ELSE [id |-> DEFAULT_KEY, rackLabel |-> DEFAULT_KEY, barcode |-> << >>,
          format |-> PlateFormat(96).v, _rackType |-> rackTypeTemplate]

\* PlateIndex.getcreate(k): [exc, plate, index]; the Plate that it builds
\* has the identity k
PlateIndex_getcreate(self, k) ==
    IF dict_has(self, k)
    THEN [exc |-> "none", plate |-> dict_get(self, k), index |-> self]
    ELSE LET p == PlateIndex_defaultplate(self)
             d == [id |-> k, rackLabel |-> k, barcode |-> << >>,
                   format |-> p.format, _rackType |-> get_rackType(p).v]
         IN  IF get_rackType(p).exc # "none"
             THEN [exc |-> get_rackType(p).exc, plate |-> p, index |-> self]
             ELSE [exc |-> "none", plate |-> d, index |-> dict_set(self, k, d)]

\* PlateIndex.__setitem__(key, value): [exc, index]
PlateIndex__setitem__(self, key, value) ==
    IF value.t # "plates.Plate" THEN [exc |-> "TypeError", index |-> self]
    ELSE [exc |-> "none", index |-> dict_set(self, key, value.v)]

\* a defective getcreate that stores the plate whether or not k is there
getcreate_overwrite(self, k, d) ==
    IF d = NoneV
    THEN PlateIndex_getcreate(SelectSeq(self, LAMBDA it : it.k # k), k)
    ELSE [exc |-> PlateIndex__setitem__(self, k, d).exc, plate |-> d.v,
          index |-> PlateIndex__setitem__(self, k, d).index]

\* PlateIndex.getcreate(k, d) for d None or any value: [exc, plate, index]
getcreate(self, k, d) ==
    IF dict_has(self, k) \/ d = NoneV THEN PlateIndex_getcreate(self, k)
    ELSE [exc |-> PlateIndex__setitem__(self, k, d).exc, plate |-> d.v,
          index |-> PlateIndex__setitem__(self, k, d).index]

\* plate.format = f for the Plate with the identity id, seen from x: a
\* Plate, or a Sample with its plate
reformat(x, id, f) ==
    IF "fullid" \in DOMAIN x
    THEN IF x.plate.id = id THEN [x EXCEPT !.plate.format = f] ELSE x
    ELSE IF x.id = id THEN [x EXCEPT !.format = f] ELSE x

\* the items of a dict after plate.format = f
reformatItems(items, id, f) ==
    [i \in DOMAIN items |->
        [k |-> items[i].k, v |-> reformat(items[i].v, id, f)]]

\* PlateIndex.defaultformat (setter) for a PlateFormat f: [id, index], the
\* index before the assignment of the format to the Plate id
PlateIndex_setdefaultformat(self, f) ==
    IF dict_has(self, DEFAULT_KEY)
    THEN [id |-> dict_get(self, DEFAULT_KEY).id, index |-> self]
    ELSE [id |-> DEFAULT_KEY,
          index |-> dict_set(self, DEFAULT_KEY,
                       [id |-> DEFAULT_KEY, rackLabel |-> DEFAULT_KEY,
                        barcode |-> << >>, format |-> f,
                        _rackType |-> rackTypeTemplate])]

\* a defective test that lets a later plate take the key of an earlier one
key_never_in(r, key) == FALSE

\* `key in r`
key_in(r, key) == dict_has(r, key)

\* the loop of indexByLabel (field "rackLabel") and of indexByBarcode (field
\* "barcode") from the i-th plate on, r the new index so far: the new
\* index or the exception raised
RECURSIVE indexLoop(_, _, _, _)
indexLoop(self, field, i, r) ==
    IF i > Len(self) THEN DictV(r)
    ELSE IF self[i].v[field] = << >> THEN ExcV("PlateIndexError")
    ELSE IF key_in(r, self[i].v[field]) THEN ExcV("PlateIndexError")
    ELSE indexLoop(self, field, i + 1,
                   dict_set(r, self[i].v[field], self[i].v))

\* PlateIndex.indexByLabel, PlateIndex.indexByBarcode
indexByLabel(self) == indexLoop(self, "rackLabel", 1, << >>)
indexByBarcode(self) == indexLoop(self, "barcode", 1, << >>)

\* excel.keywords and the other keys of a row
column_id == <<"i", "d">>
column_subid == <<"s", "u", "b", "-", "i", "d">>
column_plate == <<"p", "l", "a", "t", "e">>
column_pos == <<"p", "o", "s">>
key_subid == <<"s", "u", "b", "i", "d">>
key_position == <<"p", "o", "s", "i", "t", "i", "o", "n">>
key_sourcevolumes ==
    <<"s", "o", "u", "r", "c", "e", "v", "o", "l", "u", "m", "e", "s">>

\* str.lower()
lower(x) ==
    [i \in DOMAIN x |->
        IF x[i] \in Range(ascii_uppercase)
        THEN ascii_lowercase[find(ascii_uppercase, x[i]) + 1] ELSE x[i]]

\* SampleConverter.key2field applied to a key
key2field(key) ==
    IF key = column_subid THEN key_subid
    ELSE IF key = key_position THEN column_pos
    ELSE key

\* the element of a set of one element; a name bound over {e} stands for
\* the value of e, computed once
TheOne(S) == CHOOSE x \in S : TRUE

\* SampleConverter.clean2str
clean2str(x) == strip(str(intfloat2int(x)))

\* SampleConverter.cleanDict on the items of d
RECURSIVE cleanDict(_)
cleanDict(d) ==
    IF Len(d) = 0 THEN << >>
    ELSE LET key == key2field(lower(d[Len(d)].k))
             value == IF key \in {column_id, key_subid}
                      THEN StrV(clean2str(d[Len(d)].v))
                      ELSE d[Len(d)].v
         IN  TheOne({dict_set(r, key, value) :
                        r \in {cleanDict(SubSeq(d, 1, Len(d) - 1))}})

\* float(x) of an int, a float, or a str of the form digits[.0|.5]
float(x) ==
    IF x.t = "int" THEN FloatV(2 * x.v)
    ELSE IF x.t = "float" THEN x
    ELSE IF x.t # "str" THEN ExcV("TypeError")
    ELSE LET y == strip(x.v)
             whole == DigitRun(y, 1)
         IN  IF Len(whole) > 0 /\ Len(whole) = Len(y)
             THEN FloatV(2 * ParseNat(whole))
             ELSE IF /\ Len(whole) > 0 /\ Len(y) = Len(whole) + 2
                     /\ y[Len(whole) + 1] = "." /\ y[Len(y)] \in {"0", "5"}
             THEN FloatV(2 * ParseNat(whole)
                         + (IF y[Len(y)] = "5" THEN 1 ELSE 0))
             ELSE ExcV("ValueError")

\* bool(x) of an int, a float or a str
Truthy(x) ==
    IF x.t \in {"int", "float"} THEN x.v # 0
    ELSE IF x.t = "str" THEN Len(x.v) > 0
    ELSE x.t # "None"

\* the object that x stands for
Deref(heap, x) == IF x.t = "ref" THEN heap[x.v] ELSE x

\* isinstance(x, cls) for cls Sample or its subclass TargetSample
IsInstance(x, cls) == IF cls = "Sample" THEN IsSample(x) ELSE x.t = cls

\* kwargs.get(key, default)
kw(d, key, default) == IF dict_has(d, key) THEN dict_get(d, key) ELSE default

\* self.sampleClass(**d) for cleaned items d: [exc, obj]
NewInstance(cls, d) ==
    LET plate == kw(d, column_plate, NoneV)
        named == {column_id, key_subid, column_plate, column_pos}
        sv == kw(d, key_sourcevolumes, DictV(<< >>))
        u == Reaction_updateFields(DictV(<< >>), sv)
    IN  IF plate.t # "plates.Plate"
        THEN [exc |-> "AssertionError", obj |-> NoneV]
        ELSE LET s0 == Sample__init__(kw(d, column_id, StrV(<< >>)),
                                      kw(d, key_subid, StrV(<< >>)),
                                      plate.v, kw(d, column_pos, IntV(0)))
             IN  IF s0.t = "exc" THEN [exc |-> s0.v, obj |-> NoneV]
                 ELSE IF cls = "Sample"
                 THEN [exc |-> "none",
                       obj |-> [t |-> cls, v |-> s0.v,
                                fields |-> SelectSeq(d,
                                    LAMBDA it : it.k \notin named)]]
                 ELSE IF u.exc # "none" THEN [exc |-> u.exc, obj |-> NoneV]
                 ELSE [exc |-> "none",
                       obj |-> [t |-> cls, v |-> s0.v,
                                sourcevolumes |-> u.sourcevolumes,
                                fields |-> SelectSeq(d,
                                    LAMBDA it : it.k \notin
                                        named \cup {key_sourcevolumes})]]

\* conv.validate(sample), with the isvalid of the class of conv: the
\* exception raised, or "none"
validate(conv, sample) ==
    IF /\ conv.cls \in {"PickingConverter", "DistributionConverter"}
       /\ \E i \in DOMAIN sample.sourcevolumes.v :
            ~IsSample(sample.sourcevolumes.v[i].k)
    THEN "SampleValidationError"
    ELSE IF ~IsInstance(sample, conv.sampleClass) THEN "AssertionError"
    ELSE "none"

\* the outcome of a tosample call: [exc, ret, objs, plateindex]
Raised(e, heap, pidx) ==
    [exc |-> e, ret |-> NoneV, objs |-> heap, plateindex |-> pidx]

\* the end of SampleConverter.tosample: r is the outcome of
\* self.sampleClass(**d), index the plate index after getcreatePlate
validated(conv, r, heap, index) ==
    IF r.exc # "none" THEN Raised(r.exc, heap, index)
    ELSE IF validate(conv, r.obj) # "none"
    THEN Raised(validate(conv, r.obj), heap, index)
    ELSE [exc |-> "none", ret |-> RefV(Len(heap) + 1),
          objs |-> Append(heap, r.obj), plateindex |-> index]

\* SampleConverter.tosample from getcreatePlate on: p0 is the plate of the
\* row, gc the [plate, index] that getcreatePlate leaves
withPlate(conv, c, p0, gc, heap) ==
    IF gc.exc # "none" THEN Raised(gc.exc, heap, gc.index)
    ELSE TheOne({validated(conv, r, heap, gc.index) :
        r \in {NewInstance(conv.sampleClass,
                  dict_set(c, column_plate,
                      IF p0.t = "str" THEN PlateV(gc.plate) ELSE p0))}})

\* SampleConverter.tosample from cleanDict on, c the cleaned items
fromClean(conv, c, heap, pidx) ==
    IF ~dict_has(c, column_plate) THEN Raised("KeyError", heap, pidx)
    ELSE LET p0 == dict_get(c, column_plate)
         IN  IF p0.t \notin {"plate.Plate", "str"}
             THEN Raised("AssertionError", heap, pidx)
             ELSE TheOne({withPlate(conv, c, p0, gc, heap) :
                     gc \in {IF p0.t = "str"
                             THEN PlateIndex_getcreate(pidx, p0.v)
                             ELSE [exc |-> "none", plate |-> p0.v,
                                   index |-> pidx]}})

\* SampleConverter.tosample(d)
SampleConverter_tosample(conv, d, heap, pidx) ==
    IF d.t = "ref" /\ IsInstance(heap[d.v], conv.sampleClass)
    THEN LET e == validate(conv, heap[d.v])
         IN  IF e # "none" THEN Raised(e, heap, pidx)
             ELSE [exc |-> "none", ret |-> d, objs |-> heap,
                   plateindex |-> pidx]
    ELSE IF d.t # "dict" THEN Raised("AttributeError", heap, pidx)
    ELSE TheOne({fromClean(conv, c, heap, pidx) : c \in {cleanDict(d.v)}})

\* PickingConverter.volumefield
volumefield(field) == field \o <<"_", "v", "o", "l", "u", "m", "e">>

\* the loop of PickingConverter.tosample over the fields left, with the
\* sourcevolumes collected so far: [exc, sv]
RECURSIVE PickSources(_, _, _, _, _)
PickSources(conv, d, heap, fields, sv) ==
    IF Len(fields) = 0 THEN [exc |-> "none", sv |-> sv]
    ELSE LET f == Head(fields)
         IN  IF d.t # "dict" THEN [exc |-> "TypeError", sv |-> sv]
             ELSE IF ~dict_has(d.v, f) THEN [exc |-> "KeyError", sv |-> sv]
             ELSE LET given == Deref(heap, dict_get(d.v, f))
                      known == /\ given.t = "str"
                               /\ dict_has(conv.sampleindex, given.v)
                      vol == float(kw(d.v, volumefield(f),
                                      kw(conv.defaultvolumes, f, IntV(0))))
                  IN  IF ~IsSample(given) /\ ~known
                      THEN [exc |-> "KeyError", sv |-> sv]
                      ELSE IF vol.t = "exc" THEN [exc |-> vol.v, sv |-> sv]
                      ELSE PickSources(conv, d, heap, Tail(fields),
                              dict_set(sv,
                                  IF IsSample(given) THEN given
                                  ELSE dict_get(conv.sampleindex, given.v),
                                  vol))

\* PickingConverter.tosample(d)
PickingConverter_tosample(conv, d, heap, pidx) ==
    LET loop == PickSources(conv, d, heap, conv.sourcefields, << >>)
    IN  IF loop.exc # "none" THEN Raised(loop.exc, heap, pidx)
        ELSE IF d.t # "dict" THEN Raised("TypeError", heap, pidx)
        ELSE SampleConverter_tosample(conv,
                DictV(dict_set(d.v, key_sourcevolumes, DictV(loop.sv))),
                heap, pidx)

\* the loop of DistributionConverter.tosample: [exc, sv]
RECURSIVE DistSources(_, _, _, _)
DistSources(conv, d, fields, sv) ==
    IF Len(fields) = 0 THEN [exc |-> "none", sv |-> sv]
    ELSE LET f == Head(fields)
         IN  IF ~dict_has(conv.sampleindex, f)
             THEN [exc |-> "KeyError", sv |-> sv]
             ELSE IF d.t # "dict" THEN [exc |-> "AttributeError", sv |-> sv]
             ELSE LET given == kw(d.v, f, IntV(0))
                      vol == float(IF Truthy(given) THEN given ELSE IntV(0))
                  IN  IF vol.t = "exc" THEN [exc |-> vol.v, sv |-> sv]
                      ELSE DistSources(conv, d, Tail(fields),
                              dict_set(sv, dict_get(conv.sampleindex, f),
                                       vol))

\* DistributionConverter.tosample(d)
DistributionConverter_tosample(conv, d, heap, pidx) ==
    LET loop == DistSources(conv, d, conv.sourcefields, << >>)
    IN  IF loop.exc # "none" THEN Raised(loop.exc, heap, pidx)
        ELSE IF d.t # "dict" THEN Raised("TypeError", heap, pidx)
        ELSE SampleConverter_tosample(conv,
                DictV(dict_set(d.v, key_sourcevolumes, DictV(loop.sv))),
                heap, pidx)

\* conv.tosample(d)
tosample(conv, d, heap, pidx) ==
    IF conv.cls = "PickingConverter"
    THEN PickingConverter_tosample(conv, d, heap, pidx)
    ELSE IF conv.cls = "DistributionConverter"
    THEN DistributionConverter_tosample(conv, d, heap, pidx)
    ELSE SampleConverter_tosample(conv, d, heap, pidx)

-----------------------------------------------------------------------------
(* sampleworklist.SampleWorklist *)

\* SampleWorklist.transferSample: the arguments of A are evaluated, A is
\* called, then the arguments of D are evaluated and D is called
transferSample(st, ok, src, dst, volume, wash) ==
    IF st.exc # "none" THEN st
    ELSE IF Plate_preferredID(src.plate).exc # "none"
    THEN Raise(st, Plate_preferredID(src.plate).exc)
    ELSE LET a == A(st, ok, Plate_preferredID(src.plate).v, src.position,
                    volume, Plate_byLabel(src.plate).v,
                    Plate_rackType(src.plate))
         IN  IF a.exc # "none" THEN a
             ELSE IF Plate_preferredID(dst.plate).exc # "none"
             THEN Raise(a, Plate_preferredID(dst.plate).exc)
             ELSE D(a, ok, Plate_preferredID(dst.plate).v, dst.position,
                    volume, wash, Plate_byLabel(dst.plate).v,
                    Plate_rackType(dst.plate))

\* keys.append(k) for every k of ids that is not in keys yet
RECURSIVE appendNew(_, _)
appendNew(keys, ids) ==
    IF ids = << >> THEN keys
    ELSE appendNew(IF Head(ids) \in Range(keys) THEN keys
                   ELSE Append(keys, Head(ids)),
                   Tail(ids))

\* SampleWorklist.getReagentKeys
RECURSIVE getReagentKeysFrom(_, _, _)
getReagentKeysFrom(targetsamples, i, keys) ==
    IF i > Len(targetsamples) THEN keys
    ELSE getReagentKeysFrom(targetsamples, i + 1,
                            appendNew(keys, sourceIds(targetsamples[i])))

getReagentKeys(targetsamples) == getReagentKeysFrom(targetsamples, 1, << >>)

\* a defective loop order: the key changes with every pass
loopKey_cycling(i, nkeys, ntargets) == (i % nkeys) + 1

\* the key and the target of the i-th pass (i = 0, 1, ...) through the body
\* of `for k in keys: for tsample in targetsamples:`
loopKey(i, nkeys, ntargets) == (i \div ntargets) + 1
loopTarget(i, nkeys, ntargets) == (i % ntargets) + 1

\* a defective test that lets a volume of 0 through
srcsample_only(found, vol) == found

\* `if srcsample and vol`: a Sample is always true, a volume is true unless
\* it is 0; srcsample and vol are None when the key was not found
srcsample_and_vol(found, vol) == found /\ vol # 0

\* the loops of distributeSamples from pass i on; xfers records the
\* <<key index, target index>> of every call of transferSample
RECURSIVE distributeLoop(_, _, _, _, _, _)
distributeLoop(sx, ok, targetsamples, ks, wash, i) ==
    IF i >= Len(ks) * Len(targetsamples) \/ sx.exc # "none" THEN sx
    ELSE LET ki == loopKey(i, Len(ks), Len(targetsamples))
             ti == loopTarget(i, Len(ks), Len(targetsamples))
             tsample == targetsamples[ti]
             hit == sourceIndex_get(tsample, ks[ki])
             srcsample == tsample.sourcevolumes[hit.i][1]
             vol == tsample.sourcevolumes[hit.i][2]
         IN  IF srcsample_and_vol(hit.found, vol)
             THEN LET t == transferSample(sx, ok, srcsample, tsample, vol,
                                          wash)
                  IN  distributeLoop(
                          [t EXCEPT !.xfers = Append(@, <<ki, ti>>)],
                          ok, targetsamples, ks, wash, i + 1)
             ELSE distributeLoop(sx, ok, targetsamples, ks, wash, i + 1)

\* `reagentkeys or self.getReagentKeys(targetsamples)`
keysOf(targetsamples, rkeys) ==
    IF rkeys # << >> THEN rkeys ELSE getReagentKeys(targetsamples)

\* SampleWorklist.distributeSamples
distributeSamples(st, ok, targetsamples, rkeys, wash) ==
    distributeLoop(st, ok, targetsamples, keysOf(targetsamples, rkeys), wash,
                   0)

\* Worklist.wash, flush, B
wash(st, ok) == f_write(st, ok, <<"W">>)
flush(st, ok) == f_write(st, ok, <<"F">>)
B(st, ok) == f_write(st, ok, <<"B">>)

\* Worklist.write: the two line.replace() results are dropped, so the
\* line is written as given
write(st, ok, line) == f_write(st, ok, <<line>>)

\* Worklist.comment
comment(st, ok, text) == write(st, ok, "C; " \o text)

-----------------------------------------------------------------------------
(* Conversions on one PlateFormat: a specification of PlateFormat's pure   *)
(* methods.  A behaviour picks a format and an input, then applies         *)
(* pos2int and int2human to the latest result, so that round trips are     *)
(* behaviours of length three.                                             *)

\* longest chain of conversions
MaxChain == 2

\* the family of microplates named in PlateFormat.__init__
StandardWells == {1, 2, 6, 12, 24, 48, 96, 384, 1536}

\* characters of the input strings
PosChars == {"A", "b", "h", "Z", "0", "1", "9", " "}

RECURSIVE StrsUpTo(_)
StrsUpTo(k) ==
    IF k = 0 THEN {<< >>}
    ELSE LET shorter == StrsUpTo(k - 1)
         IN  shorter \cup {Append(s, c) : s \in shorter, c \in PosChars}

Min(a, b) == IF a < b THEN a ELSE b

\* the coordinates of a plate that a single row letter can name
Coordinates(f) ==
    {<<ascii_uppercase[r]>> \o IntStr(c) :
        r \in 1..Min(f.ny, Len(ascii_uppercase)), c \in 1..f.nx}

PosInputs(f) ==
    {IntV(k) : k \in (-MaxOut)..(f.n + MaxOut)}
    \cup {FloatV(k2) : k2 \in (-3)..(2 * MaxOut)}
    \cup {StrV(s) : s \in StrsUpTo(MaxStrLen) \cup Coordinates(f)}

\* the variables of the worklist and of distributeSamples, unused here
PFIdle ==
    /\ _f = "None" /\ file = << >> /\ fnameOK = TRUE /\ inWith = FALSE
    /\ exc = "none" /\ op = "__init__" /\ args = << >> /\ ncalls = 0
    /\ written = << >>
    /\ tsamples = << >> /\ reagentkeys = << >> /\ dkeys = << >>
    /\ xfers = << >> /\ fcontent = << >>
    /\ APIIdle

InitPF ==
    /\ fmt \in {PlateFormat(n).v : n \in StandardWells}
    /\ vals \in {<<x>> : x \in PosInputs(fmt)}
    /\ ops = << >>
    /\ PFIdle

Last(s) == s[Len(s)]

CallPos2int ==
    /\ Len(ops) < MaxChain
    /\ Last(vals).t # "exc"
    /\ vals' = Append(vals, pos2int(fmt, Last(vals)))
    /\ ops' = Append(ops, "pos2int")
    /\ UNCHANGED <<fmt, wlvars, dsvars, apivars, idxvars>>

CallInt2human ==
    /\ Len(ops) < MaxChain
    /\ Last(vals).t # "exc"
    /\ vals' = Append(vals, int2human(fmt, Last(vals)))
    /\ ops' = Append(ops, "int2human")
    /\ UNCHANGED <<fmt, wlvars, dsvars, apivars, idxvars>>

NextPF == CallPos2int \/ CallInt2human

SpecPF == InitPF /\ [][NextPF]_vars


-----------------------------------------------------------------------------
(* Claims about PlateFormat, checked under SpecPF *)

\* the formats C8 names
RoundTripWells == {6, 12, 24, 96, 384, 1536}

SameValue(a, b) == a.t = b.t /\ a.v = b.v

\* C8: for every standard format (6, 12, 24, 96, 384, 1536 wells) and every
\* position p in 1..n, pos2int(int2human(p)) = p; and for every coordinate c
\* of the plate, int2human(pos2int(c)) = c.
C8_RoundTrip ==
    fmt.n \in RoundTripWells =>
        /\ (/\ Len(ops) >= 1 /\ ops[1] = "int2human"
            /\ vals[1].t = "int" /\ vals[1].v \in 1..fmt.n)
           => /\ vals[2].t = "str"
              /\ (Len(ops) = 2 /\ ops[2] = "pos2int")
                 => SameValue(vals[3], vals[1])
        /\ (/\ Len(ops) >= 1 /\ ops[1] = "pos2int"
            /\ vals[1].t = "str" /\ vals[1].v \in Coordinates(fmt))
           => /\ vals[2].t = "int"
              /\ (Len(ops) = 2 /\ ops[2] = "int2human")
                 => SameValue(vals[3], vals[1])

\* what C9 and C10 expect of a linear index k on format f
ExpectedIndex(f, k, r) ==
    IF k = 0 \/ k > f.n THEN SameValue(r, ExcV("PlateError"))
    ELSE SameValue(r, IntV(k))

\* C9: pos2int maps '<letter><number>' case-insensitively to
\* (column-1)*ny + row, maps an integer or a whole-number float to that
\* integer, and fails with PlateError when the input parses to no number,
\* when the index is 0 or when it exceeds n.
C9_Pos2intContract ==
    (Len(ops) >= 1 /\ ops[1] = "pos2int") =>
        LET x == vals[1]
            r == vals[2]
        IN  /\ x.t = "int" => ExpectedIndex(fmt, x.v, r)
            /\ (x.t = "float" /\ x.v % 2 = 0)
               => ExpectedIndex(fmt, x.v \div 2, r)
            /\ (x.t = "str" /\ Len(x.v) >= 2)
               => \A row \in 1..Len(ascii_uppercase) :
                    x.v[1] \in {ascii_uppercase[row], ascii_lowercase[row]}
                    => \A col \in 0..(fmt.nx + MaxOut) :
                         SubSeq(x.v, 2, Len(x.v)) = IntStr(col)
                         => ExpectedIndex(fmt, (col - 1) * fmt.ny + row, r)
            /\ (x.t = "str" /\ \A i \in DOMAIN x.v : ~IsDigit(x.v[i]))
               => SameValue(r, ExcV("PlateError"))

\* C10: int2human(pos) is the letter of row (pos-1) % ny followed by the
\* column (pos-1) // ny + 1 for every pos in 1..n, and fails with PlateError
\* for every integer pos outside 1..n.
C10_Int2humanContract ==
    (Len(ops) >= 1 /\ ops[1] = "int2human" /\ vals[1].t = "int") =>
        LET pos == vals[1].v
            row == (pos - 1) % fmt.ny
            col == ((pos - 1) \div fmt.ny) + 1
        IN  IF pos \in 1..fmt.n
            THEN /\ row < Len(ascii_uppercase)
                 /\ SameValue(vals[2],
                              StrV(<<ascii_uppercase[row + 1]>> \o IntStr(col)))
            ELSE SameValue(vals[2], ExcV("PlateError"))

-----------------------------------------------------------------------------
(* One Worklist object: a specification of its file handle, its low-level *)
(* line writers and its use as a context manager.  A behaviour is a        *)
(* sequence of calls on the object; a call that raises leaves its          *)
(* exception in exc, where the caller may catch it and go on.              *)

\* longest sequence of calls
MaxCalls == 3

\* arguments of the calls
RackIDs == {"", "B"}
RackLabels == {"", "L"}
RackTypes == {"", "T"}
TipMasks == {0, 1}
Texts == {"x"}

\* the variables of PlateFormat and of distributeSamples, unused here
WLIdle ==
    /\ fmt = PlateFormat(96).v /\ vals = << >> /\ ops = << >>
    /\ tsamples = << >> /\ reagentkeys = << >> /\ dkeys = << >>
    /\ xfers = << >> /\ fcontent = << >>
    /\ APIIdle

\* Worklist.__init__: no handle yet; fname may or may not be a file that
\* can be opened for writing
Init ==
    /\ _f = "None"
    /\ file = << >>
    /\ fnameOK \in BOOLEAN
    /\ inWith = FALSE
    /\ exc = "none"
    /\ op = "__init__"
    /\ args = << >>
    /\ ncalls = 0
    /\ written = << >>
    /\ WLIdle

\* the state a call finds
Entry == [_f |-> _f, file |-> file, exc |-> "none", out |-> << >>, xfers |-> << >>]

\* the state a call leaves
Return(st, name, a) ==
    /\ _f' = st._f
    /\ file' = st.file
    /\ exc' = st.exc
    /\ written' = written \o st.out
    /\ op' = name
    /\ args' = a
    /\ ncalls' = ncalls + 1
    /\ UNCHANGED <<fnameOK, inWith, pfvars, dsvars, apivars, idxvars>>

Aspirate ==
    /\ ncalls < MaxCalls
    /\ \E rackID \in RackIDs, rackLabel \in RackLabels, rackType \in RackTypes, tipMask \in TipMasks :
        Return(aspirate(Entry, fnameOK, rackID, rackLabel, rackType, 1, "",
                        25, "", tipMask),
               "aspirate",
               [rackID |-> rackID, rackLabel |-> rackLabel,
                rackType |-> rackType, position |-> 1, tubeID |-> "",
                volume |-> 25, liquidClass |-> "", tipMask |-> tipMask,
                wash |-> FALSE])

Dispense ==
    /\ ncalls < MaxCalls
    /\ \E rackID \in RackIDs, rackLabel \in RackLabels, rackType \in RackTypes, tipMask \in TipMasks, w \in BOOLEAN :
        Return(dispense(Entry, fnameOK, rackID, rackLabel, rackType, 1, "",
                        25, "", tipMask, w),
               "dispense",
               [rackID |-> rackID, rackLabel |-> rackLabel,
                rackType |-> rackType, position |-> 1, tubeID |-> "",
                volume |-> 25, liquidClass |-> "", tipMask |-> tipMask,
                wash |-> w])

Wash ==
    /\ ncalls < MaxCalls
    /\ Return(wash(Entry, fnameOK), "wash", << >>)

Flush ==
    /\ ncalls < MaxCalls
    /\ Return(flush(Entry, fnameOK), "flush", << >>)

Break ==
    /\ ncalls < MaxCalls
    /\ Return(B(Entry, fnameOK), "B", << >>)

Comment ==
    /\ ncalls < MaxCalls
    /\ \E text \in Texts : Return(comment(Entry, fnameOK, text), "comment", <<text>>)

Write ==
    /\ ncalls < MaxCalls
    /\ \E line \in Texts : Return(write(Entry, fnameOK, line), "write", <<line>>)

Close ==
    /\ ncalls < MaxCalls
    /\ Return(close(Entry), "close", << >>)

\* `with wl:` is entered
Enter ==
    /\ ncalls < MaxCalls
    /\ ~inWith
    /\ inWith' = TRUE
    /\ exc' = "none"
    /\ op' = "__enter__"
    /\ args' = << >>
    /\ ncalls' = ncalls + 1
    /\ UNCHANGED <<_f, file, fnameOK, written, pfvars, dsvars, apivars, idxvars>>

\* the with block is left, normally (type "none"), by the exception of the
\* last call or by one raised in the block itself
Exit ==
    /\ ncalls < MaxCalls
    /\ inWith
    /\ \E type \in {"none", "Exception", exc} :
        LET st == __exit__(Entry, type)
        IN  /\ _f' = st._f
            /\ file' = st.file
            /\ exc' = st.exc
            /\ args' = <<type>>
    /\ inWith' = FALSE
    /\ op' = "__exit__"
    /\ ncalls' = ncalls + 1
    /\ UNCHANGED <<fnameOK, written, pfvars, dsvars, apivars, idxvars>>

Next ==
    \/ Aspirate \/ Dispense
    \/ Wash \/ Flush \/ Break \/ Comment \/ Write
    \/ Close \/ Enter \/ Exit

Spec == Init /\ [][Next]_vars


-----------------------------------------------------------------------------
(* Claims about one Worklist, checked under Spec *)

\* the methods that write lines
WriteOps == {"aspirate", "dispense", "wash", "flush", "B", "comment", "write"}

\* the call names a rack: by its label, or by both its ID and its type
NamesRack(a) == a.rackLabel # "" \/ (a.rackID # "" /\ a.rackType # "")

\* the line 'A;' or 'D;' followed by
\* rackLabel;rackID;rackType;position;tubeID;volume;liquidClass;tipMask;
LineOf(tag, a) ==
    <<tag, a.rackLabel, a.rackID, a.rackType, a.position, a.tubeID, a.volume,
      a.liquidClass, IF a.tipMask = 0 THEN "" ELSE ToString(a.tipMask)>>

\* what a call of aspirate or dispense with arguments a has to write
LinesOf(name, a) ==
    IF name = "aspirate" THEN <<LineOf("A", a)>>
    ELSE IF a.wash THEN <<LineOf("D", a), <<"W">>>>
    ELSE <<LineOf("D", a)>>

\* the last k elements of s
Tail_k(s, k) == SubSeq(s, Len(s) - k + 1, Len(s))

\* C4: a call of aspirate or dispense that names a rack (by label, or by ID
\* and type) on a worklist whose file can be opened writes exactly one line
\* 'A;...' or 'D;...' with the fields rackLabel, rackID, rackType, position,
\* tubeID, volume, liquidClass, tipMask (dispense with wash=True adds the
\* 'W;' line after it) and raises nothing; a call that names no rack raises
\* WorklistException, writes nothing and leaves the handle and the file as
\* they were, so the file is not opened by that call.
C4_OneLineOrNothing ==
    [][op' \in {"aspirate", "dispense"} =>
        IF NamesRack(args')
        THEN fnameOK =>
                /\ exc' = "none"
                /\ written' = written \o LinesOf(op', args')
                /\ _f' = "open"
                /\ Len(file') >= Len(LinesOf(op', args'))
                /\ Tail_k(file', Len(LinesOf(op', args'))) = LinesOf(op', args')
        ELSE /\ exc' = "WorklistException"
             /\ written' = written
             /\ file' = file
             /\ _f' = _f
      ]_vars

\* C4 witness: an aspirate that named its rack has written its A line, and
\* a dispense that named none has then been refused
C4_Witness ==
    /\ op = "dispense" /\ ~NamesRack(args) /\ exc = "WorklistException"
    /\ written # << >> /\ written[1][1] = "A" /\ file = written
    /\ _f = "open"

\* C5: in every A and D line of the file exactly one of the rackLabel field
\* and the (rackID, rackType) pair of fields is filled in.
C5_OneRackReference ==
    \A i \in DOMAIN file :
        file[i][1] \in {"A", "D"} =>
            (file[i][2] # "") # (file[i][3] # "" /\ file[i][4] # "")

C7_FileHoldsAllLines == file = written


-----------------------------------------------------------------------------
(* Reagent distribution: a specification of SampleWorklist.distributeSamples *)
(* used as in test_distributeworklist.  For one list of target Reactions    *)
(* and one reagentkeys argument, a behaviour runs                           *)
(*     with SampleWorklist(fname) as wl:                                    *)
(*         wl.distributeSamples(tsamples, reagentkeys, wash=w)              *)
(*     fcontent = open(fname).readlines()                                   *)
(* first with w = True, then with w = False, on the same file name.         *)

\* longest list of targets and longest reagentkeys argument
MaxTargets == 2
MaxKeys == 2

\* Plate(rackLabel), Plate(barcode=...), Plate() and the target plate of the
\* test
PlateR01 ==
    [id |-> "R01", rackLabel |-> "R01", barcode |-> "",
     format |-> PlateFormat(96).v, _rackType |-> DefaultRackType]
PlateB02 ==
    [id |-> "B02", rackLabel |-> "", barcode |-> "B02",
     format |-> PlateFormat(96).v, _rackType |-> DefaultRackType]
PlateNoID ==
    [id |-> "noid", rackLabel |-> "", barcode |-> "",
     format |-> PlateFormat(96).v, _rackType |-> DefaultRackType]
PlateT01 ==
    [id |-> "T01", rackLabel |-> "T01", barcode |-> "",
     format |-> PlateFormat(384).v, _rackType |-> DefaultRackType]

\* the source samples: two reagents on plates that can be named, and a
\* second sample called reagent1 on a plate that cannot
SourceSamples ==
    {Sample("reagent1", PlateR01, IntV(1)),
     Sample("reagent2", PlateB02, StrV(<<"B", "1">>)),
     Sample("reagent1", PlateNoID, IntV(3))}

Volumes == {0, 20}

\* the sourcevolumes dicts: no two keys with the same fullid
RECURSIVE SourceVolumes(_)
SourceVolumes(n) ==
    IF n = 0 THEN {<< >>}
    ELSE LET shorter == SourceVolumes(n - 1)
         IN  shorter \cup
             {Append(sv, <<s, v>>) :
                sv \in {x \in shorter : Len(x) = n - 1},
                s \in SourceSamples, v \in Volumes}

DistinctIds(sv) ==
    \A i, j \in DOMAIN sv : sv[i][1].fullid = sv[j][1].fullid => i = j

\* the i-th target: Reaction i#a on plate T01, position 9 + i
TargetsAt(i) ==
    {Reaction(ToString(i) \o "#a", PlateT01, IntV(9 + i), sv) :
        sv \in {x \in SourceVolumes(Cardinality(SourceSamples)) : DistinctIds(x)}}

\* the lists of n targets
RECURSIVE TargetListsOf(_)
TargetListsOf(n) ==
    IF n = 0 THEN {<< >>}
    ELSE {Append(ts, t) : ts \in TargetListsOf(n - 1), t \in TargetsAt(n)}

TargetLists == UNION {TargetListsOf(n) : n \in 0..MaxTargets}

\* the ids a reagentkeys argument is made of
ReagentIds == {"reagent1", "reagent2"}

KeyLists == UNION {[1..n -> ReagentIds] : n \in 0..MaxKeys}

\* the variables of PlateFormat, unused here
DistIdle ==
    /\ fmt = PlateFormat(96).v /\ vals = << >> /\ ops = << >>
    /\ APIIdle

InitDist ==
    /\ tsamples \in TargetLists
    /\ reagentkeys \in KeyLists
    /\ dkeys = << >>
    /\ xfers = << >>
    /\ fcontent = << >>
    /\ _f = "None"
    /\ file = << >>
    /\ fnameOK = TRUE
    /\ inWith = FALSE
    /\ exc = "none"
    /\ op = "__init__"
    /\ args = << >>
    /\ ncalls = 0
    /\ written = << >>
    /\ DistIdle

\* `with ... as wl:`
EnterDist ==
    /\ op = "__init__"
    /\ inWith' = TRUE
    /\ op' = "__enter__"
    /\ ncalls' = ncalls + 1
    /\ UNCHANGED <<_f, file, fnameOK, exc, args, written, pfvars, dsvars,
                   apivars, idxvars>>

\* wl.distributeSamples(tsamples, reagentkeys, wash=w): the first run is
\* the one with wash=True, the second the one with wash=False
DistributeSamples ==
    /\ op = "__enter__"
    /\ LET w == fcontent = << >>
           st == distributeSamples(Entry, fnameOK, tsamples, reagentkeys, w)
       IN  /\ _f' = st._f
           /\ file' = st.file
           /\ exc' = st.exc
           /\ written' = written \o st.out
           /\ xfers' = st.xfers
           /\ args' = [wash |-> w]
    /\ dkeys' = keysOf(tsamples, reagentkeys)
    /\ op' = "distributeSamples"
    /\ ncalls' = ncalls + 1
    /\ UNCHANGED <<fnameOK, inWith, pfvars, tsamples, reagentkeys,
                   fcontent, apivars, idxvars>>

\* the with block is left, by the exception of distributeSamples if it
\* raised one
ExitDist ==
    /\ op = "distributeSamples"
    /\ LET st == __exit__(Entry, exc)
       IN  /\ _f' = st._f
           /\ file' = st.file
           /\ exc' = st.exc
    /\ inWith' = FALSE
    /\ op' = "__exit__"
    /\ ncalls' = ncalls + 1
    /\ UNCHANGED <<fnameOK, args, written, pfvars, dsvars, apivars, idxvars>>

\* fcontent = open(fname).readlines()
ReadLines ==
    /\ op = "__exit__"
    /\ fcontent' = Append(fcontent, [wash |-> args.wash, lines |-> file])
    /\ op' = "readlines"
    /\ UNCHANGED <<wlvars_but_op, pfvars, tsamples, reagentkeys, dkeys,
                   xfers, apivars, idxvars>>

\* SampleWorklist(fname) once more, for the run with wash=False
NewWorklist ==
    /\ op = "readlines"
    /\ Len(fcontent) < 2
    /\ _f' = "None"
    /\ exc' = "none"
    /\ op' = "__init__"
    /\ args' = << >>
    /\ ncalls' = 0
    /\ written' = << >>
    /\ xfers' = << >>
    /\ dkeys' = << >>
    /\ UNCHANGED <<file, fnameOK, inWith, pfvars, tsamples, reagentkeys,
                   fcontent, apivars, idxvars>>

NextDist ==
    \/ EnterDist \/ DistributeSamples \/ ExitDist \/ ReadLines \/ NewWorklist

SpecDist == InitDist /\ [][NextDist]_vars


-----------------------------------------------------------------------------
(* Claims about distributeSamples, checked under SpecDist *)

IsW(l) == l[1] = "W"
NotW(l) == l[1] # "W"
IsA(l) == l[1] = "A"
IsD(l) == l[1] = "D"

\* <<key index, target index>> p comes before q in reagent-major order
Before(p, q) == p[1] < q[1] \/ (p[1] = q[1] /\ p[2] < q[2])

\* the source ids of targets i, i+1, ... one target after the other
RECURSIVE SourceIdsFrom(_)
SourceIdsFrom(i) ==
    IF i > Len(tsamples) THEN << >>
    ELSE sourceIds(tsamples[i]) \o SourceIdsFrom(i + 1)

\* ks lists the distinct source ids of all targets in first-seen order
FirstSeenOrder(ks) ==
    LET flat == SourceIdsFrom(1)
        first(k) == CHOOSE n \in DOMAIN flat :
                        flat[n] = k /\ \A m \in 1..(n - 1) : flat[m] # k
    IN  /\ Range(ks) = Range(flat)
        /\ \A a, b \in DOMAIN ks : a < b => first(ks[a]) < first(ks[b])

\* the entry of target ti for key ki: <<source sample, volume>>
EntryOf(ki, ti) ==
    LET sv == tsamples[ti].sourcevolumes
    IN  sv[CHOOSE n \in DOMAIN sv : sv[n][1].fullid = dkeys[ki]]

\* target ti has a source called dkeys[ki] with a volume other than 0
Transferable(ki, ti) ==
    \E n \in DOMAIN tsamples[ti].sourcevolumes :
        /\ tsamples[ti].sourcevolumes[n][1].fullid = dkeys[ki]
        /\ tsamples[ti].sourcevolumes[n][2] # 0

\* the transfers that did not raise
Completed == IF exc = "none" THEN Len(xfers) ELSE Len(xfers) - 1

\* C1: the keys distributeSamples works through are the reagentkeys
\* argument or, without one, the distinct source full-IDs of all targets in
\* first-seen order; the transfers come reagent-major, every transfer of
\* key k_i before every transfer of k_j for i < j and in target-list order
\* within one key; and the A and D lines are written in the order of the
\* transfers, the m-th pair of lines being the one of the m-th transfer.
C1_ReagentMajor ==
    op = "distributeSamples" =>
        /\ IF reagentkeys # << >> THEN dkeys = reagentkeys
           ELSE FirstSeenOrder(dkeys)
        /\ \A a, b \in DOMAIN xfers : a < b => Before(xfers[a], xfers[b])
        /\ LET T == SelectSeq(written, NotW)
           IN  /\ Len(T) = 2 * Completed
               /\ \A m \in 1..Completed :
                    LET e == EntryOf(xfers[m][1], xfers[m][2])
                        t == tsamples[xfers[m][2]]
                    IN  /\ T[2 * m - 1][1] = "A"
                        /\ T[2 * m - 1][2] = e[1].plate.rackLabel
                        /\ T[2 * m - 1][3] = e[1].plate.barcode
                        /\ T[2 * m - 1][5] = e[1].position
                        /\ T[2 * m - 1][7] = e[2]
                        /\ T[2 * m][1] = "D"
                        /\ T[2 * m][2] = t.plate.rackLabel
                        /\ T[2 * m][5] = t.position
                        /\ T[2 * m][7] = e[2]

\* C1 witness: without a reagentkeys argument, two targets have each
\* received both reagents
C1_Witness ==
    /\ op = "distributeSamples" /\ exc = "none" /\ reagentkeys = << >>
    /\ Len(dkeys) = 2 /\ Len(tsamples) = 2
    /\ xfers = <<<<1, 1>>, <<1, 2>>, <<2, 1>>, <<2, 2>>>>

\* C2: distributeSamples attempts no transfer, and so writes no A, D or W
\* line, for a (target, key) pair whose target has no source of that key or
\* has volume 0 for it; it raises only in a transfer it attempts; and every
\* other pair is transferred: all of them when nothing is raised, all those
\* before the raising transfer otherwise.
C2_SkipsSilently ==
    op = "distributeSamples" =>
        /\ \A m \in DOMAIN xfers : Transferable(xfers[m][1], xfers[m][2])
        /\ exc # "none" => xfers # << >>
        /\ \A ki \in DOMAIN dkeys, ti \in DOMAIN tsamples :
            (/\ Transferable(ki, ti)
             /\ exc # "none" => Before(<<ki, ti>>, xfers[Len(xfers)]))
            => \E m \in DOMAIN xfers : xfers[m] = <<ki, ti>>
        /\ Len(SelectSeq(written, IsA)) = Completed
        /\ Len(SelectSeq(written, IsD)) = Completed
        /\ Len(SelectSeq(written, IsW)) = IF args.wash THEN Completed ELSE 0

\* C2 witness: a pair with volume 0 and a pair without a source were passed
\* over, and a pair after both of them was transferred
C2_Witness ==
    /\ op = "distributeSamples" /\ exc = "none" /\ xfers # << >>
    /\ \E ki \in DOMAIN dkeys, ti \in DOMAIN tsamples :
        /\ \E n \in DOMAIN tsamples[ti].sourcevolumes :
            /\ tsamples[ti].sourcevolumes[n][1].fullid = dkeys[ki]
            /\ tsamples[ti].sourcevolumes[n][2] = 0
        /\ Before(<<ki, ti>>, xfers[Len(xfers)])
    /\ \E ki \in DOMAIN dkeys, ti \in DOMAIN tsamples :
        /\ \A n \in DOMAIN tsamples[ti].sourcevolumes :
            tsamples[ti].sourcevolumes[n][1].fullid # dkeys[ki]
        /\ Before(<<ki, ti>>, xfers[Len(xfers)])

\* C3: the lines read back from the run with wash=False are the lines read
\* back from the run with wash=True without its 'W;' lines; with wash=True
\* every 'D;' line is followed at once by a 'W;' line and that by no second
\* one, and there is no 'W;' line elsewhere; with wash=False there is none.
C3_WashOnlyAddsW ==
    /\ \A i, j \in DOMAIN fcontent :
        (fcontent[i].wash /\ ~fcontent[j].wash)
        => fcontent[j].lines = SelectSeq(fcontent[i].lines, NotW)
    /\ op = "distributeSamples" =>
        \A n \in DOMAIN written :
            /\ (IsD(written[n]) /\ args.wash)
               => /\ n < Len(written)
                  /\ IsW(written[n + 1])
                  /\ n + 2 <= Len(written) => ~IsW(written[n + 2])
            /\ IsW(written[n])
               => (args.wash /\ n > 1 /\ IsD(written[n - 1]))

\* C3 witness: both runs have been read back, and the run with wash=True
\* wrote two transfers
C3_Witness ==
    /\ Len(fcontent) = 2
    /\ \E i, j \in DOMAIN fcontent :
        /\ fcontent[i].wash /\ ~fcontent[j].wash
        /\ Len(fcontent[i].lines) = 6 /\ Len(fcontent[j].lines) = 4


-----------------------------------------------------------------------------
(* Building and comparing PlateFormats: a behaviour builds one object, or  *)
(* builds two and compares them as `a == b` and as dictionary keys.        *)

\* largest number of wells of a PlateFormat(n) built without nx, ny
MaxWells == 1536

\* the well counts and dimensions of the formats that are compared
SmallWells == {0, 6, 12, 96}
Dims == {None0, 1, 2, 3, 4, 8, 12, 96}

\* arguments (n, nx, ny) of PlateFormat
DefaultArgs == {<<n, None0, None0>> : n \in (-1)..MaxWells}
CompareArgs == {<<n, nx, ny>> : n \in SmallWells, nx \in Dims, ny \in Dims}

\* the variables of the other specifications, unused here
FmtIdle ==
    /\ fmt = PlateFormat(96).v /\ vals = << >> /\ ops = << >>
    /\ _f = "None" /\ file = << >> /\ fnameOK = TRUE /\ inWith = FALSE
    /\ exc = "none" /\ op = "__init__" /\ args = << >> /\ ncalls = 0
    /\ written = << >>
    /\ tsamples = << >> /\ reagentkeys = << >> /\ dkeys = << >>
    /\ xfers = << >> /\ fcontent = << >>

InitFmt == APIIdle /\ FmtIdle

\* a = PlateFormat(n, nx, ny); a second object is built next to one of the
\* formats that are compared
NewPlateFormat ==
    /\ result = << >>
    /\ \E a \in DefaultArgs \cup CompareArgs :
        /\ \/ objs = << >>
           \/ Len(objs) = 1 /\ calls[1].a \in CompareArgs /\ a \in CompareArgs
        /\ objs' = Append(objs, PlateFormat_init(a[1], a[2], a[3]))
        /\ calls' = Append(calls, [f |-> "PlateFormat", a |-> a])
    /\ UNCHANGED <<result, pfvars, wlvars, dsvars, idxvars>>

\* b = (n, nx, ny), a tuple to compare a PlateFormat with
NewTuple ==
    /\ result = << >>
    /\ Len(objs) = 1
    /\ calls[1].a \in CompareArgs
    /\ \E a \in {<<96, 12, 8>>, <<6, 3, 2>>} :
        /\ objs' = Append(objs, [t |-> "tuple",
                                 v |-> [n |-> a[1], nx |-> a[2], ny |-> a[3]]])
        /\ calls' = Append(calls, [f |-> "tuple", a |-> a])
    /\ UNCHANGED <<result, pfvars, wlvars, dsvars, idxvars>>

\* a == b, hash(a) == hash(b) where b has PlateFormat's hash, and whether
\* d[b] finds the entry of d = {a: ...}
Compare ==
    /\ result = << >>
    /\ Len(objs) = 2
    /\ objs[1].t = "PlateFormat"
    /\ objs[2].t # "exc"
    /\ LET eq == PlateFormat__eq__(objs[1].v, objs[2])
           samehash == /\ objs[2].t = "PlateFormat"
                       /\ PlateFormat__hash__(objs[1].v)
                            = PlateFormat__hash__(objs[2].v)
       IN  result' = [eq |-> eq, ne |-> ~eq, samehash |-> samehash,
                      samekey |-> samehash /\ eq]
    /\ UNCHANGED <<objs, calls, pfvars, wlvars, dsvars, idxvars>>

NextFmt == NewPlateFormat \/ NewTuple \/ Compare

SpecFmt == InitFmt /\ [][NextFmt]_vars


-----------------------------------------------------------------------------
(* Claims about building and comparing PlateFormats, checked under SpecFmt *)

\* the i-th object was built by PlateFormat with the arguments a
BuiltWith(i, a) ==
    Len(calls) >= i /\ calls[i] = [f |-> "PlateFormat", a |-> a]

\* C11: PlateFormat(12, 8) is the 96-well format: it is built, it equals
\* PlateFormat(96), and as a dictionary key it is the same key.
C11_TwelveByEight ==
    BuiltWith(1, <<12, 8, None0>>) =>
        /\ objs[1].t = "PlateFormat"
        /\ (BuiltWith(2, <<96, None0, None0>>) /\ result # << >>)
           => (result.eq /\ result.samekey)

\* C12: two PlateFormats compare equal if and only if their n, nx and ny
\* all match, so that PlateFormat(96) != PlateFormat(96, nx=1, ny=96); two
\* that compare equal have the same hash; a PlateFormat equals nothing that
\* is not a PlateFormat.
C12_EqualIffSameDims ==
    result # << >> =>
        /\ result.ne = ~result.eq
        /\ objs[2].t = "PlateFormat" =>
            /\ result.eq <=> (/\ objs[1].v.n = objs[2].v.n
                              /\ objs[1].v.nx = objs[2].v.nx
                              /\ objs[1].v.ny = objs[2].v.ny)
            /\ result.eq => result.samehash
        /\ objs[2].t # "PlateFormat" => ~result.eq
        /\ (BuiltWith(1, <<96, None0, None0>>) /\ BuiltWith(2, <<96, 1, 96>>))
           => result.ne

\* C12 witness: two objects built from different arguments have compared
\* equal
C12_Witness ==
    /\ result # << >> /\ result.eq /\ result.samehash
    /\ BuiltWith(1, <<96, None0, None0>>) /\ BuiltWith(2, <<96, 12, 8>>)

\* default nx of the formats named in test_plateformat_init
DefaultColumns == [n \in {6, 12, 24, 96, 384, 1536} |->
                     CASE n = 6 -> 3 [] n = 12 -> 4 [] n = 24 -> 6
                       [] n = 96 -> 12 [] n = 384 -> 24 [] n = 1536 -> 48]

\* C13: a PlateFormat that was built has nx * ny = n; for a well count
\* n >= 1, dimensions that do not multiply to n make the constructor raise
\* PlateError and nothing but PlateError is raised; built without nx and
\* ny, the formats of 6, 12, 24, 96, 384 and 1536 wells have 3, 4, 6, 12,
\* 24 and 48 columns, and every format of 1, 2, 6, 12, 24, 48, 96, 384 and
\* 1536 wells is built.
C13_WellsAreColumnsTimesRows ==
    \A i \in DOMAIN objs :
        calls[i].f = "PlateFormat" =>
            LET a == calls[i].a
                o == objs[i]
            IN  /\ o.t = "PlateFormat"
                   => (o.v.n = a[1] /\ o.v.nx * o.v.ny = o.v.n)
                /\ a[1] >= 1
                   => (o.t = "PlateFormat" \/ o = ExcV("PlateError"))
                /\ (a[1] >= 1 /\ a[2] # None0 /\ a[3] # None0
                        /\ a[2] * a[3] # a[1])
                   => o = ExcV("PlateError")
                /\ (a[2] = None0 /\ a[3] = None0 /\ a[1] \in StandardWells)
                   => /\ o.t = "PlateFormat"
                      /\ a[1] \in DOMAIN DefaultColumns
                         => o.v.nx = DefaultColumns[a[1]]

\* C13 witness: PlateFormat(1536) has been built with 48 columns
C13_Witness ==
    /\ BuiltWith(1, <<1536, None0, None0>>)
    /\ objs[1].t = "PlateFormat" /\ objs[1].v.nx = 48 /\ objs[1].v.ny = 32

\* C14 as stated: PlateFormat(n) without nx and ny raises PlateError for
\* every n outside 1, 2, 6, 12, 24, 48, 96, 384, 1536.
C14_NonStandardFails ==
    \A i \in DOMAIN objs :
        (/\ calls[i].f = "PlateFormat"
         /\ calls[i].a[2] = None0 /\ calls[i].a[3] = None0
         /\ calls[i].a[1] >= 1 /\ calls[i].a[1] \notin StandardWells)
        => objs[i] = ExcV("PlateError")

\* nx columns and ny rows are in the ratio 3 : 2 as nearly as integers allow
NearThreeToTwo(nx, ny) == -2 <= 2 * nx - 3 * ny /\ 2 * nx - 3 * ny <= 1

\* C14, amended: PlateFormat(n) without nx and ny, n >= 1, raises
\* PlateError for every n that is not nx * ny for some nx columns and ny
\* rows with -2 <= 2 nx - 3 ny <= 1; every other n, standard or not, is
\* built, with those dimensions.
C14_FailsUnlessNearThreeToTwo ==
    \A i \in DOMAIN objs :
        (/\ calls[i].f = "PlateFormat"
         /\ calls[i].a[2] = None0 /\ calls[i].a[3] = None0
         /\ calls[i].a[1] >= 1)
        => LET n == calls[i].a[1]
           IN  IF \E nx \in 1..n : n % nx = 0 /\ NearThreeToTwo(nx, n \div nx)
               THEN /\ objs[i].t = "PlateFormat"
                    /\ NearThreeToTwo(objs[i].v.nx, objs[i].v.ny)
               ELSE objs[i] = ExcV("PlateError")

\* C14 witness: PlateFormat(100) has raised PlateError
C14_Witness ==
    BuiltWith(1, <<100, None0, None0>>) /\ objs[1] = ExcV("PlateError")


-----------------------------------------------------------------------------
(* The specification of sample IDs and Sample construction.  A behaviour   *)
(* either normalizes one or two IDs and normalizes the latest output       *)
(* again, or builds one Sample on a plate.                                 *)

\* characters of the input IDs
IdChars == {"a", "1", "#", " "}

RECURSIVE IdStrsUpTo(_)
IdStrsUpTo(k) ==
    IF k = 0 THEN {<< >>}
    ELSE LET shorter == IdStrsUpTo(k - 1)
         IN  shorter \cup {Append(x, c) : x \in shorter, c \in IdChars}

\* numbers given as ID or sub-ID: 0, 1, 1.0, 1.5
IdNumbers == {IntV(0), IntV(1), FloatV(2), FloatV(3)}

\* the members of the tuples and lists given as ID
IdElems == {StrV(x) : x \in IdStrsUpTo(1)} \cup IdNumbers

IdInputs ==
    {StrV(x) : x \in IdStrsUpTo(MaxStrLen)}
    \cup IdNumbers
    \cup {TupleV(<< >>)}
    \cup {TupleV(<<x>>) : x \in IdElems}
    \cup {TupleV(<<x, y>>) : x \in IdElems, y \in IdElems}
    \cup {TupleV(<<StrV(<<"a">>), y, StrV(<<"1">>)>>) : y \in IdElems}
    \cup {[t |-> "list", v |-> <<StrV(<<"a">>), y>>] : y \in IdElems}

\* a plate of six wells
PlateS06 ==
    [id |-> "S06", rackLabel |-> "S06", barcode |-> "",
     format |-> PlateFormat(6).v, _rackType |-> DefaultRackType]

SamplePlates == {PlateR01, PlateS06}

\* the (id, subid) arguments of the Samples built
SampleIdArgs ==
    {<<StrV(<<"a">>), StrV(<< >>)>>, <<StrV(<<"a">>), FloatV(2)>>,
     <<StrV(<<"a", "#", "1">>), StrV(<< >>)>>}

InitSmp == APIIdle /\ FmtIdle

\* normalize_sample_id(x)
Normalize ==
    /\ result = << >>
    /\ \/ calls = << >>
       \/ Len(calls) = 1 /\ calls[1].f = "normalize_sample_id"
    /\ \E x \in IdInputs :
        /\ objs' = Append(objs, normalize_sample_id(x))
        /\ calls' = Append(calls, [f |-> "normalize_sample_id", a |-> x])
    /\ UNCHANGED <<result, pfvars, wlvars, dsvars, idxvars>>

\* normalize_sample_id(p) for the pair p that the latest call returned
Renormalize ==
    /\ result = << >>
    /\ calls # << >>
    /\ calls[1].f = "normalize_sample_id"
    /\ result' = normalize_sample_id(Last(objs))
    /\ UNCHANGED <<objs, calls, pfvars, wlvars, dsvars, idxvars>>

\* Sample(id, subid, plate, pos)
NewSample ==
    /\ calls = << >>
    /\ \E ids \in SampleIdArgs, plate \in SamplePlates :
        \E pos \in PosInputs(plate.format) :
            /\ objs' = <<Sample__init__(ids[1], ids[2], plate, pos)>>
            /\ calls' = <<[f |-> "Sample", a |-> <<ids, plate, pos>>]>>
    /\ UNCHANGED <<result, pfvars, wlvars, dsvars, idxvars>>

NextSmp == Normalize \/ Renormalize \/ NewSample

SpecSmp == InitSmp /\ [][NextSmp]_vars


-----------------------------------------------------------------------------
(* Claims about Samples and their IDs, checked under SpecSmp *)

\* C15: every Sample that was built has an integer position p with
\* 1 <= p <= plate.format.n; a position outside of that range makes the
\* construction fail, so that no Sample exists for it.
C15_PositionOnPlate ==
    (calls # << >> /\ calls[1].f = "Sample" /\ objs[1].t = "Sample") =>
        /\ objs[1].v.position \in 1..(objs[1].v.plate.format.n)
        /\ objs[1].v.plate = calls[1].a[2]

\* the (ID, sub-ID) forms that C16 names: 'ID#subID', ('ID', 'subID') and
\* ('ID', f) for a whole float f with str(int(f)) = subID, where '#' is the
\* separator and not a part of ID or subID
SameIdForms(x, y) ==
    /\ y.t = "tuple" /\ Len(y.v) = 2
    /\ y.v[1].t = "str" /\ y.v[2].t = "str"
    /\ "#" \notin Range(y.v[1].v) \cup Range(y.v[2].v)
    /\ \/ x.t = "str" /\ x.v = y.v[1].v \o <<"#">> \o y.v[2].v
       \/ /\ x.t = "tuple" /\ Len(x.v) = 2
          /\ x.v[1].t = "str" /\ x.v[1].v = y.v[1].v
          /\ x.v[2].t = "float" /\ x.v[2].v % 2 = 0
          /\ IntStr(x.v[2].v \div 2) = y.v[2].v

\* no sub-ID is supplied: a single ID without separator, or at most one
\* member
NoSubId(x) ==
    \/ x.t \in {"int", "float"}
    \/ x.t = "str" /\ "#" \notin Range(x.v)
    \/ x.t \in {"tuple", "list"} /\ Len(x.v) <= 1

\* C16: normalize_sample_id returns a pair of strings; applied to its own
\* output it returns that output; 'ID#subID', ('ID', 'subID') and
\* ('ID', whole float subID) give the same pair; and the sub-ID is '' when
\* none is supplied.
C16_NormalizeIdempotent ==
    (calls # << >> /\ calls[1].f = "normalize_sample_id") =>
        /\ \A i \in DOMAIN objs :
            /\ objs[i].t = "tuple" /\ Len(objs[i].v) = 2
            /\ objs[i].v[1].t = "str" /\ objs[i].v[2].t = "str"
            /\ NoSubId(calls[i].a) => objs[i].v[2].v = << >>
        /\ result # << >> => result = Last(objs)
        /\ \A i, j \in DOMAIN objs :
            SameIdForms(calls[i].a, calls[j].a) => objs[i] = objs[j]

\* 'a#1' and ('a', 1.0) were normalized to ('a', '1'), and normalizing
\* that pair again has returned it
C16_Witness ==
    /\ Len(calls) = 2
    /\ calls[1] = [f |-> "normalize_sample_id", a |-> StrV(<<"a", "#", "1">>)]
    /\ calls[2].a.t = "tuple" /\ Len(calls[2].a.v) = 2
    /\ calls[2].a.v[2] = FloatV(2)
    /\ calls[2].a.v[1].t = "str" /\ calls[2].a.v[1].v = <<"a">>
    /\ objs[2] = TupleV(<<StrV(<<"a">>), StrV(<<"1">>)>>)
    /\ result = objs[2]


-----------------------------------------------------------------------------
(* The specification of SampleIndex: an index built with relaxed_id True   *)
(* or False, to which samples are added one by one, and which is then      *)
(* asked for a key or for its length.                                      *)

\* number of add calls
MaxAdds == 3

\* the samples added: (id, subid, pos) on one plate
IndexSamples ==
    {Sample__init__(StrV(a[1]), StrV(a[2]), PlateR01, IntV(a[3])) :
        a \in {<<<<"a">>, << >>, 1>>,
               <<<<"a", "#", "1">>, << >>, 1>>,
               <<<<"a">>, <<"1">>, 2>>,
               <<<<"a", "#", "2">>, << >>, 1>>,
               <<<<"a", "#", "1">>, <<"2">>, 1>>,
               <<<<"b">>, << >>, 1>>}}

\* a sample that is never added
OtherSample == Sample__init__(StrV(<<"c">>), StrV(<< >>), PlateR01, IntV(9))

\* the keys looked up
IndexKeys ==
    {StrV(k) : k \in {<< >>, <<"a">>, <<"b">>, <<"a", "#", "1">>,
                      <<"a", "#", "2">>, <<"a", "#", "3">>,
                      <<"a", "#", "1", "#", "2">>}}
    \cup {TupleV(<<StrV(<<"a">>), StrV(<<"1">>)>>),
          TupleV(<<StrV(<<"a">>), FloatV(4)>>)}

InitIdx ==
    /\ FmtIdle
    /\ objs = << >> /\ calls = << >> /\ result = << >>
    /\ _map = << >> /\ plateindex = << >> /\ clones = {}
    /\ relaxed_id \in BOOLEAN

\* no lookup has been made yet
Adding == IF calls = << >> THEN TRUE ELSE Last(calls).f = "add"

\* index.add(sample)
Add ==
    /\ Adding
    /\ Len(calls) < MaxAdds
    /\ \E sample \in IndexSamples \cup {StrV(<<"a">>)} :
        LET r == SampleIndex_add(_map, sample)
        IN  /\ _map' = r._map
            /\ result' = IF r.exc = "none" THEN NoneV ELSE ExcV(r.exc)
            /\ calls' = Append(calls, [f |-> "add", a |-> sample])
    /\ UNCHANGED <<objs, relaxed_id, plateindex, clones, pfvars, wlvars,
                   dsvars>>

\* index.get(key, default, relaxed)
Get ==
    /\ Adding
    /\ \E key \in IndexKeys, default \in {NoneV, OtherSample},
          relaxed \in {NoneV, BoolV(TRUE), BoolV(FALSE)} :
        /\ result' = SampleIndex_get(_map, relaxed_id, key, default, relaxed)
        /\ calls' = Append(calls, [f |-> "get",
                                   a |-> <<key, default, relaxed>>])
    /\ UNCHANGED <<objs, idxvars, pfvars, wlvars, dsvars>>

\* index[key]
GetItem ==
    /\ Adding
    /\ \E key \in IndexKeys :
        /\ result' = SampleIndex_get(_map, relaxed_id, key, NoneV, NoneV)
        /\ calls' = Append(calls, [f |-> "get", a |-> <<key, NoneV, NoneV>>])
    /\ UNCHANGED <<objs, idxvars, pfvars, wlvars, dsvars>>

\* len(index)
LenIndex ==
    /\ Adding
    /\ result' = IntV(Len(_map))
    /\ calls' = Append(calls, [f |-> "__len__", a |-> << >>])
    /\ UNCHANGED <<objs, idxvars, pfvars, wlvars, dsvars>>

NextIdx == Add \/ Get \/ GetItem \/ LenIndex

SpecIdx == InitIdx /\ [][NextIdx]_vars


-----------------------------------------------------------------------------
(* Claims about SampleIndex, checked under SpecIdx *)

\* the positions in calls of the add calls that were given a Sample
Added == {i \in DOMAIN calls : calls[i].f = "add" /\ calls[i].a.t = "Sample"}

\* C17: after add(s), the exact lookup get(s.fullid, relaxed=False) returns
\* the sample added last with that fullid, and len(index) is the number of
\* distinct fullids among the samples added.
C17_ExactLookupAfterAdd ==
    /\ (calls # << >> /\ Last(calls).f = "__len__") =>
            result = IntV(Cardinality({calls[i].a.v.fullid : i \in Added}))
    /\ (calls # << >> /\ Last(calls).f = "get") =>
        LET key == Last(calls).a[1]
            relaxed == Last(calls).a[3]
        IN  \A i \in Added :
                (/\ relaxed = BoolV(FALSE)
                 /\ key.t = "str"
                 /\ key.v = calls[i].a.v.fullid)
                => \E j \in Added :
                    /\ calls[j].a.v.fullid = key.v
                    /\ \A l \in Added : calls[l].a.v.fullid = key.v => l <= j
                    /\ result = calls[j].a

\* the ID portion of a key of the index: what stands before the first '#'
IdPortion(k) ==
    IF "#" \in Range(k) THEN SubSeq(k, 1, find(k, "#")) ELSE k

\* the normalized key of a lookup: 'ID' or 'ID#subID'
NormalizedKey(key0) == _getfullid(normalize_sample_id(key0))

\* the places in _map of the entries whose ID portion is key
RelaxedHits(key) == {i \in DOMAIN _map : IdPortion(_map[i].k) = key}

\* C18: get(key) returns the entry whose key is the normalized key if there
\* is one; otherwise, if relaxed matching is enabled (by the argument, or by
\* the index when the argument is None), the earliest inserted entry whose
\* ID portion equals the key; otherwise the default, or KeyError without a
\* default.
C18_ExactThenRelaxedThenDefault ==
    (calls # << >> /\ Last(calls).f = "get") =>
        LET key == NormalizedKey(Last(calls).a[1])
            default == Last(calls).a[2]
            relaxed == Last(calls).a[3]
            enabled == IF relaxed = NoneV THEN relaxed_id ELSE relaxed.v
            exact == {i \in DOMAIN _map : _map[i].k = key}
        IN  IF exact # {}
            THEN \E i \in exact : result = _map[i].v
            ELSE IF enabled /\ RelaxedHits(key) # {}
            THEN \E i \in RelaxedHits(key) :
                    /\ \A j \in RelaxedHits(key) : i <= j
                    /\ result = _map[i].v
            ELSE IF default # NoneV THEN result = default
            ELSE result = ExcV("KeyError")

\* 'a#1' and 'a#2' are in the index in this order, 'a' is not, and the
\* relaxed lookup of 'a' has returned the sample 'a#1'
C18_Witness ==
    /\ calls # << >> /\ Last(calls).f = "get"
    /\ Last(calls).a[1].t = "str" /\ Last(calls).a[1].v = <<"a">>
    /\ Len(_map) = 2
    /\ _map[1].k = <<"a", "#", "1">> /\ _map[2].k = <<"a", "#", "2">>
    /\ result = _map[1].v


-----------------------------------------------------------------------------
(* The specification of Reaction.updateFields: one Reaction, built without *)
(* sourcevolumes, whose updateFields is called with one mapping after the  *)
(* other.  objs[1] is the sourcevolumes of the Reaction.                   *)

\* number of updateFields calls
MaxUpdates == 2

\* the keys and the values of the mappings
RxKeys ==
    {Sample__init__(StrV(<<"a">>), StrV(<< >>), PlateR01, IntV(1)),
     Sample__init__(StrV(<<"b">>), StrV(<< >>), PlateR01, IntV(2)),
     StrV(<<"a">>)}

RxValues == {IntV(15), FloatV(3), StrV(<<"1", "5">>)}

\* the sourcevolumes arguments: dicts of up to two items, and a list of
\* pairs, which is no dict
RxMappings ==
    {DictV(<< >>)}
    \cup {DictV(<<[k |-> k1, v |-> v1]>>) : k1 \in RxKeys, v1 \in RxValues}
    \cup {DictV(<<[k |-> kk[1], v |-> v1], [k |-> kk[2], v |-> v2]>>) :
            kk \in {x \in RxKeys \X RxKeys : x[1] # x[2]},
            v1 \in RxValues, v2 \in RxValues}
    \cup {[t |-> "list", v |-> <<<<k1, IntV(15)>>>>] : k1 \in RxKeys}

\* Reaction(id=..., plate=..., pos=...): sourcevolumes = {}
InitRx ==
    /\ FmtIdle
    /\ objs = <<DictV(<< >>)>> /\ calls = << >> /\ result = << >>
    /\ _map = << >> /\ relaxed_id = TRUE /\ plateindex = << >>
    /\ clones = {}

\* reaction.updateFields(sourcevolumes=m)
UpdateFields ==
    /\ Len(calls) < MaxUpdates
    /\ \E m \in RxMappings :
        LET r == Reaction_updateFields(objs[1], m)
        IN  /\ objs' = <<r.sourcevolumes>>
            /\ result' = IF r.exc = "none" THEN NoneV ELSE ExcV(r.exc)
            /\ calls' = Append(calls, [f |-> "updateFields", a |-> m])
    /\ UNCHANGED <<idxvars, pfvars, wlvars, dsvars>>

NextRx == UpdateFields

SpecRx == InitRx /\ [][NextRx]_vars


-----------------------------------------------------------------------------
(* Claims about Reaction, checked under SpecRx *)

\* every key of the mapping m is a Sample and every value a number
WellTyped(m) ==
    /\ m.t = "dict"
    /\ \A i \in DOMAIN m.v : IsSample(m.v[i].k) /\ IsNumber(m.v[i].v)

\* C19: updateFields(sourcevolumes=m) raises for every mapping m that has a
\* key that is no Sample or a value that is no number, and does so before it
\* assigns anything; after a call that succeeded, every key of sourcevolumes
\* is a Sample and every value a number.
C19_UpdateFieldsValidates ==
    /\ WellTyped(objs[1])
    /\ (calls # << >> /\ ~WellTyped(Last(calls).a)) => result.t = "exc"


-----------------------------------------------------------------------------
(* The specification of the converters: a heap with a source Sample and a  *)
(* TargetSample, converters of the three classes, and tosample called on a *)
(* row or on an instance, then on instances again.                         *)

\* number of tosample calls
MaxConversions == 2

\* Plate('S')
PlateSRC ==
    [id |-> <<"S">>, rackLabel |-> <<"S">>, barcode |-> << >>,
     format |-> PlateFormat(96).v, _rackType |-> rackTypeTemplate]

\* Sample('r1', plate=Plate('S'), pos=1)
SourceSample ==
    [t |-> "Sample",
     v |-> Sample__init__(StrV(<<"r", "1">>), StrV(<< >>), PlateSRC,
                          IntV(1)).v,
     fields |-> << >>]

\* TargetSample(id='t', plate=Plate('S'), pos=2, sourcevolumes={r1: 20.0})
TargetOfSource ==
    [t |-> "TargetSample",
     v |-> Sample__init__(StrV(<<"t">>), StrV(<< >>), PlateSRC, IntV(2)).v,
     sourcevolumes |-> DictV(<<[k |-> SourceSample, v |-> FloatV(40)]>>),
     fields |-> << >>]

\* SampleList([r1]).toSampleIndex()
SourceIndex == <<[k |-> SourceSample.v.fullid, v |-> SourceSample]>>

key_source == <<"s", "o", "u", "r", "c", "e">>

\* SampleConverter(), PickingConverter(sourcesamples=SampleList([r1])) with
\* sourcefields ['source'] or [], DistributionConverter(reagents=[r1]) and
\* DistributionConverter()
Converters ==
    {[cls |-> "SampleConverter", sampleClass |-> "Sample",
      sourcefields |-> << >>, sampleindex |-> << >>,
      defaultvolumes |-> << >>]}
    \cup {[cls |-> "PickingConverter", sampleClass |-> "TargetSample",
           sourcefields |-> sf, sampleindex |-> SourceIndex,
           defaultvolumes |-> << >>] : sf \in {<<key_source>>, << >>}}
    \cup {[cls |-> "DistributionConverter", sampleClass |-> "TargetSample",
           sourcefields |-> [i \in DOMAIN ix |-> ix[i].k],
           sampleindex |-> ix,
           defaultvolumes |-> << >>] : ix \in {SourceIndex, << >>}}

\* the rows: {'ID': 'x', 'plate': ..., 'pos': ..., 'source': ..., 'r1': ...}
Rows ==
    {DictV(<<[k |-> <<"I", "D">>, v |-> StrV(<<"x">>)],
             [k |-> column_plate, v |-> plate],
             [k |-> column_pos, v |-> pos],
             [k |-> key_source, v |-> src],
             [k |-> <<"r", "1">>, v |-> vol]>>) :
        plate \in {StrV(<<"T">>), PlateV(PlateSRC), OldPlateV(PlateSRC)},
        pos \in {IntV(1), IntV(0)},
        src \in {StrV(<<"r", "1">>), RefV(1)},
        vol \in {IntV(20), StrV(<< >>)}}

InitConv ==
    /\ FmtIdle
    /\ objs = <<SourceSample, TargetOfSource>>
    /\ calls = << >> /\ result = << >>
    /\ _map = << >> /\ relaxed_id = TRUE
    /\ plateindex = << >> /\ clones = {}

\* conv.tosample(d): a row is given to the first call only
ToSample ==
    /\ Len(calls) < MaxConversions
    /\ \E conv \in Converters :
        \E d \in {RefV(i) : i \in DOMAIN objs}
                 \cup (IF calls = << >> THEN Rows ELSE {}) :
            \E r \in {tosample(conv, d, objs, plateindex)} :
                /\ objs' = r.objs
                /\ plateindex' = r.plateindex
                /\ result' = IF r.exc = "none" THEN r.ret ELSE ExcV(r.exc)
                /\ calls' = Append(calls, [f |-> "tosample", a |-> d,
                                           conv |-> conv])
    /\ UNCHANGED <<_map, relaxed_id, clones, pfvars, wlvars, dsvars>>

NextConv == ToSample

SpecConv == InitConv /\ [][NextConv]_vars


-----------------------------------------------------------------------------
(* Claims about the converters, checked under SpecConv *)

\* C20: for a converter of any of the three classes, tosample(x) of an x
\* that is an instance of the sample class of the converter returns x, the
\* same object, and raises nothing.
C20_ToSampleReturnsInstance ==
    (/\ calls # << >>
     /\ Last(calls).a.t = "ref"
     /\ IsInstance(objs[Last(calls).a.v], Last(calls).conv.sampleClass))
    => result = Last(calls).a


-----------------------------------------------------------------------------
(* The specification of one Plate: it is constructed, then its format and  *)
(* its rackType are assigned and byLabel, preferredID and rackType are     *)
(* read.  The heap objs holds the Plate, or the exception of __init__.     *)

\* length of the rackType templates
MaxTemplate == 3

\* number of method calls and assignments on the plate
MaxPlateCalls == 2

\* the characters of a template: the placeholder's and a plain letter
TemplateChars == {"%", "i", "W"}

RECURSIVE TemplatesUpTo(_)
TemplatesUpTo(k) ==
    IF k = 0 THEN {<< >>}
    ELSE TemplatesUpTo(k - 1)
         \cup {Append(t, c) : t \in TemplatesUpTo(k - 1), c \in TemplateChars}

Templates == TemplatesUpTo(MaxTemplate) \cup {rackTypeTemplate}

\* the values given to the rackType setter
SetterValues == {StrV(t) : t \in TemplatesUpTo(1)} \cup {IntV(1)}

PlateLabels == {StrV(<< >>), StrV(<<"L">>), IntV(1)}
PlateBarcodes == {StrV(<< >>), StrV(<<"B">>)}
PlateFormats == {PlateFormat(96), PlateFormat(384)}

InitPlate == APIIdle /\ FmtIdle

\* Plate(rackLabel, barcode, format, rackType)
NewPlate ==
    /\ objs = << >>
    /\ \E rl \in PlateLabels, bc \in PlateBarcodes, f \in PlateFormats,
          rt \in Templates :
            objs' = <<Plate__init__(<<"p">>, rl, bc, f, rt)>>
    /\ UNCHANGED <<calls, result, pfvars, wlvars, dsvars, idxvars>>

PlateBuilt == IF objs = << >> THEN FALSE ELSE objs[1].t = "plates.Plate"

\* plate.format = f
SetFormat ==
    /\ PlateBuilt /\ Len(calls) < MaxPlateCalls
    /\ \E f \in PlateFormats :
        /\ objs' = <<PlateV([objs[1].v EXCEPT !.format = f.v])>>
        /\ calls' = Append(calls, [f |-> "format", a |-> f])
    /\ result' = NoneV
    /\ UNCHANGED <<pfvars, wlvars, dsvars, idxvars>>

\* plate.rackType = value
SetRackType ==
    /\ PlateBuilt /\ Len(calls) < MaxPlateCalls
    /\ \E value \in SetterValues :
        /\ objs' = IF value.t # "str" THEN objs
                   ELSE <<PlateV([objs[1].v EXCEPT !._rackType = value.v])>>
        /\ result' = IF value.t # "str" THEN ExcV("AssertionError")
                     ELSE NoneV
        /\ calls' = Append(calls, [f |-> "rackType=", a |-> value])
    /\ UNCHANGED <<pfvars, wlvars, dsvars, idxvars>>

\* plate.rackType
GetRackType ==
    /\ PlateBuilt /\ Len(calls) < MaxPlateCalls
    /\ result' = IF get_rackType(objs[1].v).exc # "none"
                 THEN ExcV(get_rackType(objs[1].v).exc)
                 ELSE StrV(get_rackType(objs[1].v).v)
    /\ calls' = Append(calls, [f |-> "rackType", a |-> NoneV])
    /\ UNCHANGED <<objs, pfvars, wlvars, dsvars, idxvars>>

\* plate.byLabel()
ByLabel ==
    /\ PlateBuilt /\ Len(calls) < MaxPlateCalls
    /\ result' = byLabel(objs[1].v)
    /\ calls' = Append(calls, [f |-> "byLabel", a |-> NoneV])
    /\ UNCHANGED <<objs, pfvars, wlvars, dsvars, idxvars>>

\* plate.preferredID()
PreferredID ==
    /\ PlateBuilt /\ Len(calls) < MaxPlateCalls
    /\ result' = preferredID(objs[1].v)
    /\ calls' = Append(calls, [f |-> "preferredID", a |-> NoneV])
    /\ UNCHANGED <<objs, pfvars, wlvars, dsvars, idxvars>>

NextPlate ==
    \/ NewPlate
    \/ SetFormat
    \/ SetRackType
    \/ GetRackType
    \/ ByLabel
    \/ PreferredID

SpecPlate == InitPlate /\ [][NextPlate]_vars


-----------------------------------------------------------------------------
(* Claims about Plate, checked under SpecPlate *)

\* the last call was method f of the plate
LastCall(f) == IF calls = << >> THEN FALSE ELSE Last(calls).f = f

\* what the claim lets byLabel do on the plate
ExpectedByLabel(plate) ==
    IF plate.rackLabel # << >> THEN BoolV(TRUE)
    ELSE IF plate.barcode # << >> /\ plate._rackType # << >>
    THEN BoolV(FALSE)
    ELSE ExcV("PlateError")

\* C21: byLabel() returns True whenever rackLabel is non-empty, False when
\* rackLabel is empty and barcode and rackType are both non-empty, and raises
\* PlateError otherwise; preferredID() returns the rackLabel in the first
\* case, the barcode in the second and raises PlateError in the third, and
\* never returns an empty identifier.
C21_IdentificationPrecedence ==
    /\ LastCall("byLabel") => result = ExpectedByLabel(objs[1].v)
    /\ LastCall("preferredID") =>
        /\ ExpectedByLabel(objs[1].v) = BoolV(TRUE)
            => result = StrV(objs[1].v.rackLabel)
        /\ ExpectedByLabel(objs[1].v) = BoolV(FALSE)
            => result = StrV(objs[1].v.barcode)
        /\ ExpectedByLabel(objs[1].v) = ExcV("PlateError")
            => result = ExcV("PlateError")
        /\ result.t = "str" => result.v # << >>

\* C21 for the templates that Python formats with one integer: those that
\* make the rackType getter return
C21_WhenRackTypeFormats ==
    (PlateBuilt /\ get_rackType(objs[1].v).exc = "none")
    => C21_IdentificationPrecedence


-----------------------------------------------------------------------------
(* The specification of a PlateIndex: three plates are built, then they    *)
(* are assigned to keys, plates are got or created, formats are            *)
(* reassigned, the index is indexed anew, and a Sample is put on a plate.  *)
(* A Plate is held by value wherever it is referred to, and its id tells   *)
(* which object it is: an assignment to plate.format changes every copy.   *)
(* calls holds the last call only, with the index as it was before it.     *)

\* number of calls on the index, the plates and the sample
MaxIdxCalls == 3

\* Plate('L', barcode='B'), Plate('L', format=PlateFormat(384)) and
\* Plate(barcode='C', rackType='W')
PlateO1 ==
    [id |-> <<"o", "1">>, rackLabel |-> <<"L">>, barcode |-> <<"B">>,
     format |-> PlateFormat(96).v, _rackType |-> rackTypeTemplate]
PlateO2 ==
    [id |-> <<"o", "2">>, rackLabel |-> <<"L">>, barcode |-> << >>,
     format |-> PlateFormat(384).v, _rackType |-> rackTypeTemplate]
PlateO3 ==
    [id |-> <<"o", "3">>, rackLabel |-> << >>, barcode |-> <<"C">>,
     format |-> PlateFormat(96).v, _rackType |-> <<"W">>]

PlateKeys == {<<"k">>, <<"L">>, DEFAULT_KEY}

\* the positions given to Sample
SamplePositions == {IntV(1), IntV(96), IntV(384)}

wlvars_but_ncalls == <<_f, file, fnameOK, inWith, exc, op, args, written>>

InitPIdx ==
    /\ FmtIdle
    /\ objs = <<PlateV(PlateO1), PlateV(PlateO2), PlateV(PlateO3)>>
    /\ calls = << >> /\ result = << >>
    /\ _map = << >> /\ relaxed_id = TRUE
    /\ plateindex = << >> /\ clones = {}

\* the Plate instances that the program holds
HeapOf(cls) == {objs[i].v : i \in {j \in DOMAIN objs : objs[j].t = cls}}
HeapPlates == HeapOf("plates.Plate")
HeapSamples == HeapOf("Sample")
IndexPlates == {plateindex[i].v : i \in DOMAIN plateindex}
KnownPlates == HeapPlates \cup IndexPlates \cup {s.plate : s \in HeapSamples}

\* the heap after plate.format = f for the Plate id
reformatHeap(heap, id, f) ==
    [i \in DOMAIN heap |-> [heap[i] EXCEPT !.v = reformat(@, id, f)]]

\* the call f(a) made on the index as it is now
ThisCall(f, a) == <<[f |-> f, a |-> a, before |-> plateindex]>>

\* index[k] = value
SetItem ==
    /\ ncalls < MaxIdxCalls
    /\ \E k \in PlateKeys,
          value \in {PlateV(q) : q \in HeapPlates} \cup {StrV(<<"x">>)} :
        \E r \in {PlateIndex__setitem__(plateindex, k, value)} :
            /\ plateindex' = r.index
            /\ result' = IF r.exc # "none" THEN ExcV(r.exc) ELSE NoneV
            /\ calls' = ThisCall("__setitem__", <<StrV(k), value>>)
    /\ ncalls' = ncalls + 1
    /\ UNCHANGED <<objs, clones, _map, relaxed_id, pfvars, dsvars,
                   wlvars_but_ncalls>>

\* index.getcreate(k) and index.getcreate(k, d)
GetCreate ==
    /\ ncalls < MaxIdxCalls
    /\ \E k \in PlateKeys, d \in {PlateV(q) : q \in HeapPlates} \cup {NoneV} :
        \E r \in {getcreate(plateindex, k, d)} :
            /\ plateindex' = r.index
            /\ result' = IF r.exc # "none" THEN ExcV(r.exc)
                         ELSE PlateV(r.plate)
            /\ clones' =
                IF /\ ~dict_has(plateindex, k) /\ d = NoneV /\ r.exc = "none"
                   /\ PlateIndex_defaultplate(plateindex)._rackType
                        = rackTypeTemplate
                THEN clones \cup {r.plate.id} ELSE clones
            /\ calls' = ThisCall("getcreate", <<StrV(k), d>>)
    /\ ncalls' = ncalls + 1
    /\ UNCHANGED <<objs, _map, relaxed_id, pfvars, dsvars, wlvars_but_ncalls>>

\* index.defaultformat = f
SetDefaultFormat ==
    /\ ncalls < MaxIdxCalls
    /\ \E f \in PlateFormats \cup {IntV(96)} :
        /\ IF f.t # "PlateFormat"
           THEN /\ result' = ExcV("AssertionError")
                /\ UNCHANGED <<objs, plateindex>>
           ELSE \E r \in {PlateIndex_setdefaultformat(plateindex, f.v)} :
                    /\ plateindex' = reformatItems(r.index, r.id, f.v)
                    /\ objs' = reformatHeap(objs, r.id, f.v)
                    /\ result' = NoneV
        /\ calls' = ThisCall("defaultformat=", <<f>>)
    /\ ncalls' = ncalls + 1
    /\ UNCHANGED <<clones, _map, relaxed_id, pfvars, dsvars,
                   wlvars_but_ncalls>>

\* plate.format = f
SetPlateFormat ==
    /\ ncalls < MaxIdxCalls
    /\ \E q \in KnownPlates, f \in PlateFormats :
        /\ plateindex' = reformatItems(plateindex, q.id, f.v)
        /\ objs' = reformatHeap(objs, q.id, f.v)
        /\ calls' = ThisCall("format=", <<StrV(q.id), f>>)
    /\ result' = NoneV
    /\ ncalls' = ncalls + 1
    /\ UNCHANGED <<clones, _map, relaxed_id, pfvars, dsvars,
                   wlvars_but_ncalls>>

\* index.indexByLabel()
IndexByLabel ==
    /\ ncalls < MaxIdxCalls
    /\ result' = indexByLabel(plateindex)
    /\ calls' = ThisCall("indexByLabel", << >>)
    /\ ncalls' = ncalls + 1
    /\ UNCHANGED <<objs, plateindex, clones, _map, relaxed_id, pfvars, dsvars,
                   wlvars_but_ncalls>>

\* index.indexByBarcode()
IndexByBarcode ==
    /\ ncalls < MaxIdxCalls
    /\ result' = indexByBarcode(plateindex)
    /\ calls' = ThisCall("indexByBarcode", << >>)
    /\ ncalls' = ncalls + 1
    /\ UNCHANGED <<objs, plateindex, clones, _map, relaxed_id, pfvars, dsvars,
                   wlvars_but_ncalls>>

\* Sample('s', plate=q, pos=pos): one Sample is built
NewSampleOn ==
    /\ ncalls < MaxIdxCalls
    /\ HeapSamples = {}
    /\ \E q \in KnownPlates, pos \in SamplePositions :
        \E smp \in {Sample__init__(StrV(<<"s">>), StrV(<< >>), q, pos)} :
            /\ objs' = IF smp.t = "exc" THEN objs ELSE Append(objs, smp)
            /\ result' = IF smp.t = "exc" THEN smp ELSE NoneV
            /\ calls' = ThisCall("Sample", <<StrV(q.id), pos>>)
    /\ ncalls' = ncalls + 1
    /\ UNCHANGED <<plateindex, clones, _map, relaxed_id, pfvars, dsvars,
                   wlvars_but_ncalls>>

\* sample.position2D
Position2D ==
    /\ ncalls < MaxIdxCalls
    /\ \E smp \in HeapSamples :
        result' = int2human(smp.plate.format, IntV(smp.position))
    /\ calls' = ThisCall("position2D", << >>)
    /\ ncalls' = ncalls + 1
    /\ UNCHANGED <<objs, plateindex, clones, _map, relaxed_id, pfvars, dsvars,
                   wlvars_but_ncalls>>

NextPIdx ==
    \/ SetItem
    \/ GetCreate
    \/ SetDefaultFormat
    \/ SetPlateFormat
    \/ IndexByLabel
    \/ IndexByBarcode
    \/ NewSampleOn
    \/ Position2D

SpecPIdx == InitPIdx /\ [][NextPIdx]_vars


-----------------------------------------------------------------------------
(* Claims about PlateIndex, checked under SpecPIdx *)

\* the last call was f, made on the index `before`
LastIdxCall(f) == IF calls = << >> THEN FALSE ELSE calls[1].f = f

\* C22: getcreate(key) is an idempotent get-or-create.  For a key that the
\* index has, with or without a template, it returns the plate object held
\* under key and leaves the index as it is.  For a key that the index lacks
\* it adds exactly one plate under key and returns it; when no template is
\* given this plate has rackLabel = key and the default plate's format and
\* rackType.
C22_GetCreateIdempotent ==
    LastIdxCall("getcreate") =>
        LET before == calls[1].before
            key == calls[1].a[1].v
            template == calls[1].a[2]
        IN  IF dict_has(before, key)
            THEN /\ result = PlateV(dict_get(before, key))
                 /\ plateindex = before
            ELSE /\ result.t = "plates.Plate"
                 /\ plateindex = Append(before, [k |-> key, v |-> result.v])
                 /\ template = NoneV =>
                     /\ result.v.rackLabel = key
                     /\ result.v.format
                          = PlateIndex_defaultplate(before).format
                     /\ get_rackType(result.v)
                          = get_rackType(PlateIndex_defaultplate(before))

\* getcreate was called with another plate as the template for a key under
\* which the index holds a plate that an earlier getcreate built
C22_Witness ==
    /\ LastIdxCall("getcreate")
    /\ dict_has(calls[1].before, calls[1].a[1].v)
    /\ calls[1].a[2] # NoneV
    /\ dict_get(calls[1].before, calls[1].a[1].v).id = calls[1].a[1].v
    /\ result = PlateV(dict_get(calls[1].before, calls[1].a[1].v))

\* the plates of the index lack a value of the field or share one
LacksOrShares(index, field) ==
    \/ \E i \in DOMAIN index : index[i].v[field] = << >>
    \/ \E i, j \in DOMAIN index :
        i # j /\ index[i].v[field] = index[j].v[field]

\* result is `index` keyed anew by the field
Rekeyed(index, field) ==
    /\ result.t = "dict"
    /\ Len(result.v) = Len(index)
    /\ \A i \in DOMAIN result.v : result.v[i].k = result.v[i].v[field]
    /\ \A i \in DOMAIN index : \E j \in DOMAIN result.v :
        result.v[j].v = index[i].v

\* what the claim lets indexByLabel or indexByBarcode do
IndexedBy(f, field) ==
    LastIdxCall(f) =>
        /\ plateindex = calls[1].before
        /\ IF LacksOrShares(plateindex, field)
           THEN result = ExcV("PlateIndexError")
           ELSE Rekeyed(plateindex, field)

\* C23: indexByLabel() (indexByBarcode()) returns a new index with as many
\* entries as the source, each plate keyed by its rackLabel (barcode); it
\* raises PlateIndexError if a plate of the source has an empty rackLabel
\* (barcode) or if two entries of the source yield the same one; the source
\* index is never modified.
C23_IndexByKey ==
    /\ IndexedBy("indexByLabel", "rackLabel")
    /\ IndexedBy("indexByBarcode", "barcode")

\* an index that holds two plates with the same rackLabel was refused by
\* indexByLabel
C23_Witness ==
    /\ LastIdxCall("indexByLabel") /\ Len(plateindex) = 2
    /\ plateindex[1].v.id # plateindex[2].v.id
    /\ plateindex[1].v.rackLabel = plateindex[2].v.rackLabel
    /\ result = ExcV("PlateIndexError")

\* an index of two plates was keyed anew by barcode
C23_Rekeyed ==
    /\ LastIdxCall("indexByBarcode") /\ Len(plateindex) = 2
    /\ result.t = "dict"

\* '<n> Well Microplate'
WellMicroplate(n) ==
    IntStr(n) \o SubSeq(rackTypeTemplate, 3, Len(rackTypeTemplate))

\* C29: after any sequence of format reassignments, every plate that carries
\* the '%i Well Microplate' template, constructed directly or created by
\* getcreate(key) as a clone of a default plate that carries it, reports the
\* rackType '<n> Well Microplate' for its current format.n.
C29_RackTypeFollowsFormat ==
    \A q \in KnownPlates :
        (q._rackType = rackTypeTemplate \/ q.id \in clones)
        => get_rackType(q) = [exc |-> "none", v |-> WellMicroplate(q.format.n)]

\* C29 for the plates that hold the template themselves
C29_TemplateHolders ==
    \A q \in KnownPlates :
        q._rackType = rackTypeTemplate
        => get_rackType(q) = [exc |-> "none", v |-> WellMicroplate(q.format.n)]

\* C30: in every reachable state, also after the format of a plate has been
\* reassigned, directly or through PlateIndex.defaultformat, the position of
\* every Sample lies within 1..plate.format.n of its plate, and position2D
\* does not fail.
C30_PositionWithinFormat ==
    /\ \A smp \in HeapSamples :
        smp.position \in 1..smp.plate.format.n
    /\ LastIdxCall("position2D") => result.t = "str"

-----------------------------------------------------------------------------
(* Transfers: a specification of Worklist.transfer, Worklist.transferColumn *)
(* and SampleWorklist.transferSample called one after the other on one       *)
(* worklist.  calls holds the last call with the lines it handed to f.write, *)
(* result what it returned or raised.                                        *)

\* longest sequence of transfer calls
MaxXferCalls == 2

\* the plate formats handed to transferColumn: 3 x 2 and 6 x 4 wells
ColumnFormats == {PlateFormat(6).v, PlateFormat(24).v}
Columns == {1, 2}

\* the samples handed to transferSample: on a plate with a label, on a
\* plate with a barcode, and on a plate that cannot be identified
XferSamples ==
    {Sample("s1", PlateR01, IntV(1)), Sample("s2", PlateB02, IntV(2)),
     Sample("s3", PlateNoID, IntV(3))}

InitXfer == Init

\* `return i` at the end of transferColumn: the loop variable of
\* `for i in range(0, rows)` after the last pass
transferColumn_return(st, rows) ==
    IF st.exc # "none" THEN ExcV(st.exc) ELSE IntV(rows - 1)

\* the state a transfer call leaves
ReturnXfer(st, name, a, r) ==
    /\ _f' = st._f
    /\ file' = st.file
    /\ exc' = st.exc
    /\ written' = written \o st.out
    /\ op' = name
    /\ args' = a
    /\ ncalls' = ncalls + 1
    /\ calls' = <<[f |-> name, a |-> a, out |-> st.out]>>
    /\ result' = r
    /\ UNCHANGED <<fnameOK, inWith, pfvars, dsvars, objs, idxvars>>

\* what a method without a return statement gives
Returned(st) == IF st.exc # "none" THEN ExcV(st.exc) ELSE NoneV

Transfer ==
    /\ ncalls < MaxXferCalls
    /\ \E srcID \in RackIDs, dstID \in RackIDs, w \in BOOLEAN, l \in BOOLEAN, srcRackType \in RackTypes, dstRackType \in RackTypes :
        \E st \in {transfer(Entry, fnameOK, srcID, 1, dstID, 2, 25, w, l,
                            srcRackType, dstRackType)} :
            ReturnXfer(st, "transfer",
                       [srcID |-> srcID, dstID |-> dstID, wash |-> w,
                        byLabel |-> l, srcRackType |-> srcRackType,
                        dstRackType |-> dstRackType],
                       Returned(st))

TransferColumn ==
    /\ ncalls < MaxXferCalls
    /\ \E srcID \in RackIDs, dstID \in RackIDs, srcCol \in Columns, dstCol \in Columns, plateformat \in ColumnFormats, w \in BOOLEAN, l \in BOOLEAN, t \in RackTypes :
        \E st \in {transferColumn(Entry, fnameOK, srcID, srcCol, dstID,
                                  dstCol, 25, plateformat, "", 0, w, l, t,
                                  t)} :
            ReturnXfer(st, "transferColumn",
                       [srcID |-> srcID, srcCol |-> srcCol, dstID |-> dstID,
                        dstCol |-> dstCol, plateformat |-> plateformat,
                        wash |-> w, byLabel |-> l, srcRackType |-> t,
                        dstRackType |-> t],
                       transferColumn_return(st, plateformat.ny))

TransferSample ==
    /\ ncalls < MaxXferCalls
    /\ \E src \in XferSamples, dst \in XferSamples, w \in BOOLEAN :
        \E st \in {transferSample(Entry, fnameOK, src, dst, 25, w)} :
            ReturnXfer(st, "transferSample",
                       [src |-> src, dst |-> dst, wash |-> w], Returned(st))

NextXfer == Transfer \/ TransferColumn \/ TransferSample

SpecXfer == InitXfer /\ [][NextXfer]_vars


-----------------------------------------------------------------------------
(* Claims about the transfers, checked under SpecXfer *)

\* the lines of the last call without the wash lines
PairLines == SelectSeq(calls[1].out, NotW)

\* line l aspirates from / dispenses to well position of the rack named id
Addresses(l, kind, id, position) ==
    /\ l[1] = kind
    /\ l[5] = position
    /\ IF args.byLabel THEN l[2] = id ELSE l[3] = id

\* the i-th pair (i = 0, 1, ...) of the last transferColumn call is the
\* pair of row i of the two columns
PairOfRow(i) ==
    /\ Addresses(PairLines[2 * i + 1], "A", args.srcID,
                 (args.srcCol - 1) * args.plateformat.ny + 1 + i)
    /\ Addresses(PairLines[2 * i + 2], "D", args.dstID,
                 (args.dstCol - 1) * args.plateformat.ny + 1 + i)

\* the last call was a transferColumn that completed
ColumnDone == op = "transferColumn" /\ exc = "none"

\* C24: for a plate format with ny rows, a transferColumn call that completes
\* has written exactly ny aspirate+dispense pairs, the i-th pair (i = 0 ..
\* ny-1) addressing source well (srcCol-1)*ny + 1 + i and destination well
\* (dstCol-1)*ny + 1 + i, and has returned the number of pairs written.
C24_ColumnPairs ==
    ColumnDone =>
        /\ Len(PairLines) = 2 * args.plateformat.ny
        /\ \A i \in 0..(args.plateformat.ny - 1) : PairOfRow(i)
        /\ result = IntV(Len(PairLines) \div 2)

\* C24 without the return value: the pairs written and the wells they address
C24_PairsWritten ==
    ColumnDone =>
        /\ Len(PairLines) = 2 * args.plateformat.ny
        /\ \A i \in 0..(args.plateformat.ny - 1) : PairOfRow(i)

\* a column of four rows has been transferred between different columns
C24_Witness ==
    /\ ColumnDone
    /\ args.plateformat.ny = 4 /\ args.srcCol = 1 /\ args.dstCol = 2
    /\ Len(PairLines) = 8

\* every aspirate line of the file is followed by a dispense line
AspiratesMatched ==
    \A i \in DOMAIN file :
        IsA(file[i]) => i < Len(file) /\ IsD(file[i + 1])

\* C26: a transfer or transferSample call that raises has written no line
\* of that transfer, so that the file never holds an aspirate line without
\* the dispense line that belongs to it.
C26_AllOrNothing ==
    /\ (op \in {"transfer", "transferSample"} /\ exc # "none")
        => calls[1].out = << >>
    /\ AspiratesMatched

-----------------------------------------------------------------------------
(* Removal from a SampleIndex: samples are added one by one as under       *)
(* SpecIdx, then entries are deleted with `del index[key]`.  The call      *)
(* record of a deletion holds the _map it found.                           *)

\* number of del statements
MaxDels == 2

\* the keys of the del statements: ID strings, Sample instances, and keys
\* of other types
DelKeys == IndexKeys \cup IndexSamples \cup {OtherSample, IntV(1)}

InitDel == InitIdx

\* the del statements made so far
Dels == {i \in DOMAIN calls : calls[i].f = "__delitem__"}

\* del index[key]
DelItem ==
    /\ calls # << >>
    /\ Cardinality(Dels) < MaxDels
    /\ \E key \in DelKeys :
        \E r \in {SampleIndex__delitem__(_map, relaxed_id, key)} :
            /\ _map' = r._map
            /\ result' = IF r.exc = "none" THEN NoneV ELSE ExcV(r.exc)
            /\ calls' = Append(calls, [f |-> "__delitem__", a |-> key,
                                       before |-> _map])
    /\ UNCHANGED <<objs, relaxed_id, plateindex, clones, pfvars, wlvars,
                   dsvars>>

NextDel == Add \/ DelItem

SpecDel == InitDel /\ [][NextDel]_vars


-----------------------------------------------------------------------------
(* Claims about the removal, checked under SpecDel *)

\* the last call was `del index[key]`
Deleted == IF calls = << >> THEN FALSE ELSE Last(calls).f = "__delitem__"

\* key names an entry of the index m: the ID string under which a sample
\* is held, or a Sample instance that is held
InIndex(m, key) ==
    \/ key.t = "str" /\ dict_has(m, key.v)
    \/ key.t = "Sample" /\ \E i \in DOMAIN m : m[i].v = key

\* the key of the entry that key names
EntryKey(key) == IF key.t = "str" THEN key.v ELSE key.v.fullid

\* C25: del index[key], with key a sample ID string or a Sample instance
\* that is in the index, removes exactly the entry of that sample and
\* completes; ValueError is raised only for a key of another type.
C25_DelRemovesEntry ==
    Deleted =>
        /\ InIndex(Last(calls).before, Last(calls).a) =>
            /\ result = NoneV
            /\ _map = SelectSeq(Last(calls).before,
                                LAMBDA x : x.k # EntryKey(Last(calls).a))
        /\ result = ExcV("ValueError") =>
                Last(calls).a.t \notin {"str", "Sample"}

\* C25 without the completion, for a Sample instance: the entry named is
\* the one removed
C25_InstanceRemoved ==
    (/\ Deleted /\ InIndex(Last(calls).before, Last(calls).a)
     /\ Last(calls).a.t = "Sample") =>
        _map = SelectSeq(Last(calls).before,
                         LAMBDA x : x.k # EntryKey(Last(calls).a))

\* a sample held in an index of two has been deleted by its instance
C25_Witness ==
    /\ Deleted
    /\ Len(Last(calls).before) = 2 /\ Len(_map) = 1
    /\ Last(calls).a.t = "Sample"
    /\ InIndex(Last(calls).before, Last(calls).a)

-----------------------------------------------------------------------------
(* Reagent distribution with sources that share an ID: the runs of         *)
(* SpecDist, without a reagentkeys argument, on targets whose              *)
(* sourcevolumes may hold two different source samples of the same         *)
(* full-ID.  Every plate can be named.                                     *)

\* the source samples: reagent1 on two plates, reagent2
SharedIdSources ==
    {Sample("reagent1", PlateR01, IntV(1)),
     Sample("reagent1", PlateB02, IntV(2)),
     Sample("reagent2", PlateB02, IntV(3))}

SharedIdVolumes == {0, 20, 30}

\* the sourcevolumes dicts of up to two items: the keys of a dict are
\* different samples
SharedIdDicts ==
    {<< >>}
    \cup {<<<<s, v>>>> : s \in SharedIdSources, v \in SharedIdVolumes}
    \cup {sv \in {<<<<s1, v1>>, <<s2, v2>>>> :
                        s1 \in SharedIdSources, v1 \in SharedIdVolumes,
                        s2 \in SharedIdSources, v2 \in SharedIdVolumes} :
            sv[1][1] # sv[2][1]}

\* the lists of n targets on plate T01
RECURSIVE SharedIdTargets(_)
SharedIdTargets(n) ==
    IF n = 0 THEN {<< >>}
    ELSE {Append(ts, Reaction(ToString(n) \o "#a", PlateT01, IntV(9 + n), sv)) :
            ts \in SharedIdTargets(n - 1), sv \in SharedIdDicts}

InitSrc ==
    /\ tsamples \in UNION {SharedIdTargets(n) : n \in 1..MaxTargets}
    /\ reagentkeys = << >>
    /\ dkeys = << >>
    /\ xfers = << >>
    /\ fcontent = << >>
    /\ _f = "None"
    /\ file = << >>
    /\ fnameOK = TRUE
    /\ inWith = FALSE
    /\ exc = "none"
    /\ op = "__init__"
    /\ args = << >>
    /\ ncalls = 0
    /\ written = << >>
    /\ DistIdle

SpecSrc == InitSrc /\ [][NextDist]_vars


-----------------------------------------------------------------------------
(* Claims about sources that share an ID, checked under SpecSrc *)

\* the (target, source) entries with a volume other than 0
NonZeroEntries ==
    {e \in (DOMAIN tsamples) \X (1..2) :
        /\ e[2] \in DOMAIN tsamples[e[1]].sourcevolumes
        /\ tsamples[e[1]].sourcevolumes[e[2]][2] # 0}

\* the m-th pair of lines takes the volume of entry e from the plate and
\* position of its source to the plate and position of its target
PairOfEntry(m, e) ==
    LET T == SelectSeq(written, NotW)
        src == tsamples[e[1]].sourcevolumes[e[2]][1]
        vol == tsamples[e[1]].sourcevolumes[e[2]][2]
        dst == tsamples[e[1]]
    IN  /\ T[2 * m - 1][1] = "A"
        /\ T[2 * m - 1][2] = src.plate.rackLabel
        /\ T[2 * m - 1][3] = IF src.plate.rackLabel # "" THEN ""
                             ELSE src.plate.barcode
        /\ T[2 * m - 1][5] = src.position
        /\ T[2 * m - 1][7] = vol
        /\ T[2 * m][1] = "D"
        /\ T[2 * m][2] = dst.plate.rackLabel
        /\ T[2 * m][5] = dst.position
        /\ T[2 * m][7] = vol

\* every entry has its pair of lines, and there are no other pairs
OnePairPerEntry ==
    /\ Len(SelectSeq(written, NotW)) = 2 * Cardinality(NonZeroEntries)
    /\ \A e \in NonZeroEntries :
        \E m \in 1..Cardinality(NonZeroEntries) : PairOfEntry(m, e)

\* C27: with the default reagent keys, distributeSamples writes exactly one
\* aspirate+dispense pair for every (target, source sample) entry whose
\* volume is not 0, from the plate and position of that source and with
\* that volume; no entry is dropped, merged with another or written twice.
C27_OnePairPerEntry ==
    (op = "distributeSamples" /\ exc = "none") => OnePairPerEntry

\* no target has two sources of the same full-ID
NoSharedIds ==
    \A ti \in DOMAIN tsamples : DistinctIds(tsamples[ti].sourcevolumes)

\* C27 for targets whose sources have different full-IDs
C27_DistinctSources ==
    (op = "distributeSamples" /\ exc = "none" /\ NoSharedIds)
    => OnePairPerEntry

\* two targets with two sources each have received all four volumes
C27_Witness ==
    /\ op = "distributeSamples" /\ exc = "none" /\ NoSharedIds
    /\ Cardinality(NonZeroEntries) = 4
    /\ Len(SelectSeq(written, NotW)) = 8

-----------------------------------------------------------------------------
(* Claims about the coordinates pos2int accepts, checked under SpecPF *)

\* the row (1 = 'A') and the column that the string s names, for a string
\* with a row letter
RowOf(s) == find(ascii_uppercase, str2tuple(s).letter) + 1
ColumnOf(s) == str2tuple(s).number
HasRowLetter(s) == str2tuple(s).letter # ""

\* pos2int has been applied to the input and has returned a well
Accepted == IF ops = << >> THEN FALSE ELSE ops[1] = "pos2int" /\ vals[2].t = "int"

\* the coordinate strings, other than the one handed in, that pos2int maps
\* to the well w of format f
OtherCoordinatesOf(f, w, s) ==
    {o \in StrsUpTo(MaxStrLen) \cup Coordinates(f) :
        /\ HasRowLetter(o)
        /\ pos2int(f, StrV(o)) = IntV(w)
        /\ <<RowOf(o), ColumnOf(o)>> # <<RowOf(s), ColumnOf(s)>>}

\* C28: pos2int accepts a coordinate string only when its row letter lies
\* within the ny rows of the plate and its column within 1..nx; it never
\* returns a value outside 1..n; and two different accepted coordinates
\* never map to the same well.
C28_AcceptsOnlyCoordinates ==
    Accepted =>
        /\ vals[2].v \in 1..fmt.n
        /\ (vals[1].t = "str" /\ HasRowLetter(vals[1].v)) =>
            /\ RowOf(vals[1].v) \in 1..fmt.ny
            /\ ColumnOf(vals[1].v) \in 1..fmt.nx
            /\ OtherCoordinatesOf(fmt, vals[2].v, vals[1].v) = {}

\* C28 for the coordinates of the plate: each is accepted, with a well of
\* its own within 1..n
C28_PlateCoordinates ==
    (/\ ops # << >> /\ vals[1].t = "str" /\ vals[1].v \in Coordinates(fmt)
     /\ ops[1] = "pos2int") =>
        /\ vals[2].t = "int" /\ vals[2].v \in 1..fmt.n
        /\ \A o \in Coordinates(fmt) :
            pos2int(fmt, StrV(o)) = vals[2] => o = vals[1].v

\* the last coordinate of the 96-well plate has been accepted
C28_Witness ==
    /\ Accepted /\ fmt.n = 96
    /\ vals[1] = StrV(<<"H", "1", "2">>) /\ vals[2] = IntV(96)

=============================================================================
